---------------------------- MODULE Spec2Model ----------------------------
(***************************************************************************)
(* Inventory ledger, FIFO allocation and reservation lifecycle of the WMS  *)
(* Telegram bots (Main/bot1/main.py, Main/bot2/main.py), over the store    *)
(* gateway Main/Database/db_connector.py.                                  *)
(*                                                                         *)
(* The store holds two tables, inventory and reservations.  Every call of  *)
(* DatabaseConnector.execute_query is one statement on a connection of its *)
(* own, committed on its own, and it may raise a store error.  A handler   *)
(* is therefore a sequence of steps, one per statement; the Python code    *)
(* between two statements is local to the handler and belongs to the step  *)
(* of the statement before it.  h[w] is the position and the local         *)
(* variables of the handler that handler instance w is running.            *)
(***************************************************************************)
EXTENDS Integers, Sequences, FiniteSets, TLC

\* ------------------------------------------------------------------ bounds
MaxQty == 2      \* largest quantity a ledger record may hold in the model
MaxReq == 2      \* largest quantity a command may ask for

\* ------------------------------------------------------------- value sets
SKUs  == {"X"}
Lots  == {"A", "B"}
Locs  == {"L1"}
Dates == {1, 2}
Workers == {1, 2}     \* handler instances

CANCELLED_LOT == "CANCELLED_LOT"
CANCELLED_LOC == "CANCELLED_LOC"
None  == "None"       \* Python None, SQL NULL
NoRow == [quantity |-> -1, inbound_date |-> 0]   \* no such row in inventory

Keys == (SKUs \X Lots \X Locs) \cup (SKUs \X {CANCELLED_LOT} \X {CANCELLED_LOC})

ReserveIds == {"R1"}
NoRes == [sku |-> None, quantity |-> 0, status |-> None, reserved_lot |-> None,
          reserved_location |-> None, picked_by |-> None, returned_by |-> None,
          cancelled_by |-> None]
User == "u1"                      \* the caller (user_id) of every command
Admin == "u0"                     \* the super admin the system is set up with

\* Config/users.json as installed: a list of user ids for each ledger bot and
\* the "super_admin" list
users_json == [bot1 |-> {User, "u2"}, bot2 |-> {User}, super_admin |-> {Admin}]

(* inventory[key]   : the inventory row of (sku, lot, location), or NoRow    *)
(* reservations[id] : the reservations row of reserve_id id, or NoRes       *)
(* h[w]             : handler instance w: position and local variables      *)
(* trip             : the reservation id and the SKU's total before the     *)
(*                    Reserve that was the last command to complete         *)
(* log[id]          : the entries of Log/transactions.log that carry the    *)
(*                    IdStamp id, oldest first                              *)
(* writable         : whether an append to the log file succeeds            *)
(* super_admin      : the "super_admin" list of Config/users.json           *)
VARIABLES inventory, reservations, h, trip, log, writable, super_admin

vars == <<inventory, reservations, h, trip, log, writable, super_admin>>

\* ---------------------------------------------------------------- helpers
Min(a, b) == IF a < b THEN a ELSE b

RECURSIVE SumSeq(_)
SumSeq(s) == IF s = <<>> THEN 0 ELSE Head(s) + SumSeq(Tail(s))

RECURSIVE SumOver(_, _)
SumOver(S, f) == IF S = {} THEN 0
                 ELSE LET x == CHOOSE y \in S : TRUE IN f[x] + SumOver(S \ {x}, f)

Exists(inv, key) == key \in Keys /\ inv[key] # NoRow

RowsOf(inv, sku) == {k \in Keys : k[1] = sku /\ inv[k] # NoRow}

\* sum of Quantity over the SKU's records
TotalOf(inv, sku) == SumOver(RowsOf(inv, sku), [k \in Keys |-> inv[k].quantity])


Perms(S) == {p \in [1..Cardinality(S) -> S] : \A x \in S : \E i \in DOMAIN p : p[i] = x}

\* --------------------------------------------------------------- commands
\* One item of a command as the handler receives it.  quantity is int(qty_str);
\* date is the parsed date, 0 when date_str does not match %Y-%m-%d.
Item(sku, qty, lot, loc, date, rid) ==
    [sku |-> sku, qty |-> qty, lot |-> lot, loc |-> loc, date |-> date, rid |-> rid]

\* the outcome of one item: item_success, item_error, the deductions applied,
\* the reserve id handed out, whether the reply line starts with the check mark,
\* the rows the stock query returned, and the two tables as they were when the
\* item began and when it ended
ItemResult(hr, ok, err, msgok, inv, res) ==
    [kind |-> hr.kind, ok |-> ok, err |-> err, deds |-> hr.deds, rid |-> hr.newrid,
     msg_ok |-> msgok, item |-> hr.items[hr.k], stock |-> hr.stock,
     before |-> hr.before, after |-> inv, rbefore |-> hr.rbefore, rafter |-> res]

Idle == [pc |-> "idle", kind |-> "none", items |-> <<>>, k |-> 0, snap |-> <<>>,
         remaining |-> 0, stock |-> <<>>, deds |-> <<>>, ok |-> TRUE, err |-> "none",
         new_quantity |-> 0, target |-> <<None, None>>, newrid |-> None,
         results |-> <<>>, before |-> <<>>, rbefore |-> <<>>,
         overall_success |-> TRUE, error_message_summary |-> <<>>,
         backup_file_name |-> None, user_id |-> None, confirmed_by |-> None,
         elapsed |-> FALSE, command_args |-> <<>>]

MultiItemKinds == {"in", "return", "adjust_in", "out"}

\* the statuses a reservation ends in
Terminal == {"PICKED", "RETURNED", "CANCELLED"}

FirstStatement(kind) ==
    CASE kind = "out"            -> "out_select"
      [] kind = "in"             -> "in_select"
      [] kind = "return"         -> "in_select"
      [] kind = "adjust_in"      -> "adj_select"
      [] kind = "cancel_out"     -> "co_select_any"
      [] kind = "reserve"        -> "res_select"
      [] kind = "reserve_pick"   -> "pick_select"
      [] kind = "reserve_return" -> "ret_select"
      [] kind = "reserve_cancel" -> "can_select"
      [] kind = "reserve_ck"     -> "ck_select"

\* the checks without the one on the quantity
date_check_only(kind, it) ==
    IF kind \in {"in", "return", "adjust_in"} /\ it.date \notin Dates
        THEN "Invalid date format"
    ELSE "none"

\* the checks a handler makes on an item before its first statement
LocalError(kind, it) ==
    IF kind \notin {"adjust_in", "reserve_cancel", "reserve_ck"} /\ it.qty <= 0
        THEN "Invalid quantity (non-positive)"
    ELSE IF kind \in {"in", "return", "adjust_in"} /\ it.date \notin Dates
        THEN "Invalid date format"
    ELSE "none"

\* the item errors after which a multi-item handler goes on with `continue`
Continues == {"Invalid quantity (non-positive)", "Invalid date format", "No stock found",
              "Insufficient stock", "Negative quantity after adjustment"}

\* `if not item_success: overall_success = False; error_message_summary.append`
\* is the last statement of the loop body, so `continue` passes it by
skips_summary(kind, err) == kind \in MultiItemKinds /\ err \in Continues

\* overall_success and the error details once item k has ended with (ok, err)
Summed(hr, k, ok, err) ==
    IF ok \/ skips_summary(hr.kind, err) THEN hr
    ELSE [hr EXCEPT !.overall_success = FALSE,
                    !.error_message_summary = Append(@, [k |-> k, err |-> err])]

\* Move on to item k: an item that fails the local checks yields its result
\* line at once (continue); past the last item the handler is done.
RECURSIVE Advance(_, _, _, _)
Advance(hr, k, inv, res) ==
    IF k > Len(hr.items) THEN [hr EXCEPT !.pc = "done"]
    ELSE LET at == [hr EXCEPT !.k = k, !.snap = <<>>, !.stock = <<>>, !.remaining = 0,
                              !.deds = <<>>,
                              !.ok = TRUE, !.err = "none", !.new_quantity = 0,
                              !.target = <<None, None>>, !.newrid = None,
                              !.before = inv, !.rbefore = res]
             e  == LocalError(hr.kind, hr.items[k])
         IN IF e # "none"
              THEN Advance([Summed(at, k, FALSE, e) EXCEPT !.results =
                               Append(@, ItemResult(at, FALSE, e, FALSE, inv, res))],
                           k + 1, inv, res)
              ELSE [at EXCEPT !.pc = FirstStatement(hr.kind)]

\* a handler that gives up the whole command at the first item that fails
finish_aborts(hr, ok, err, msgok, inv, res) ==
    LET r == [Summed(hr, hr.k, ok, err) EXCEPT
                  !.ok = ok, !.err = err,
                  !.results = Append(@, ItemResult(hr, ok, err, msgok, inv, res))]
    IN IF hr.kind \in MultiItemKinds /\ ok THEN Advance(r, hr.k + 1, inv, res)
       ELSE [r EXCEPT !.pc = "done"]

\* The item in hand ends with (ok, err); a multi-item handler goes on with the
\* next item, the others are done.
Finish(hr, ok, err, msgok, inv, res) ==
    LET r == [Summed(hr, hr.k, ok, err) EXCEPT
                  !.ok = ok, !.err = err,
                  !.results = Append(@, ItemResult(hr, ok, err, msgok, inv, res))]
    IN IF hr.kind \in MultiItemKinds THEN Advance(r, hr.k + 1, inv, res)
       ELSE [r EXCEPT !.pc = "done"]

cur(w) == h[w].items[h[w].k]

\* ------------------------------------------------- utils: the transaction log
\* the IdStamp of the command handler w is working on (generate_id_stamp gives
\* every command its own)
id_stamp(w) == w

EmptyLog == [id \in {id_stamp(w) : w \in Workers} |-> <<>>]

\* log_transaction_to_file(id_stamp, command_type, ..., "PROCESSING", ...)
open_entry(w, kind) ==
    [id_stamp |-> id_stamp(w), entry |-> "open", status |-> "PROCESSING",
     command_type |-> kind, error_details |-> <<>>]

final_status(hr) ==
    IF hr.kind \in MultiItemKinds
      THEN IF hr.overall_success /\ hr.error_message_summary = <<>>
             THEN "SUCCESS" ELSE "FAILED"
      ELSE IF hr.overall_success THEN "SUCCESS" ELSE "FAILED"

\* update_transaction_log_file_status(id_stamp, final_status, final_message,
\* error_details)
close_entry(w, hr) ==
    [id_stamp |-> id_stamp(w), entry |-> "close", status |-> final_status(hr),
     command_type |-> hr.kind, error_details |-> hr.error_message_summary]

\* a function that writes its close entry only where it ends without an error
close_on_success_only(w, from, to) ==
    (IF from.pc = "idle" /\ to.pc # "idle" THEN <<open_entry(w, to.kind)>> ELSE <<>>)
    \o (IF from.pc # "done" /\ to.pc = "done" /\ final_status(to) = "SUCCESS"
          THEN <<close_entry(w, to)>> ELSE <<>>)

\* the entries a step of handler w hands to the log: the open entry when a
\* process_* function is entered, the close entry when it comes to its end
EntriesWritten(w, from, to) ==
    (IF from.pc = "idle" /\ to.pc # "idle" THEN <<open_entry(w, to.kind)>> ELSE <<>>)
    \o (IF from.pc # "done" /\ to.pc = "done" THEN <<close_entry(w, to)>> ELSE <<>>)

\* with open(TRANSACTION_LOG_FILE, 'a'): the entries are appended; when the
\* file cannot be written the exception is logged and nothing is appended.
\* Once the handler has gone back to wait for the next command, the entries of
\* the command it has finished are left out of the model (they never change
\* again).  The ledger handlers write neither the log's folder nor users.json.
Logged(w) ==
    /\ log' = [log EXCEPT ![id_stamp(w)] =
                 IF h'[w].pc = "idle" THEN <<>>
                 ELSE IF writable THEN @ \o EntriesWritten(w, h[w], h'[w])
                 ELSE @]
    /\ writable' = writable
    /\ super_admin' = super_admin

\* ------------------------------------------------------ store statements
\* UPDATE inventory SET quantity = q WHERE sku, lot, location: no row, no change
UpdateQuantity(inv, key, q) ==
    IF Exists(inv, key) THEN [inv EXCEPT ![key].quantity = q] ELSE inv

\* UPDATE inventory SET quantity = quantity + d WHERE sku, lot, location
AddQuantity(inv, key, d) ==
    IF Exists(inv, key) THEN [inv EXCEPT ![key].quantity = @ + d] ELSE inv

\* the stock query without its `quantity > 0`
SelectEveryRow(inv, sku) ==
    LET K == RowsOf(inv, sku)
        sorted(p) == \A i, j \in DOMAIN p :
                        i < j => inv[p[i]].inbound_date <= inv[p[j]].inbound_date
    IN {[i \in DOMAIN p |-> [lot |-> p[i][2], loc |-> p[i][3], qty |-> inv[p[i]].quantity]] :
            p \in {q \in Perms(K) : sorted(q)}}

\* the same rows, newest inbound date first (ORDER BY inbound_date DESC)
SelectNewestFirst(inv, sku) ==
    LET K == {k \in RowsOf(inv, sku) : inv[k].quantity > 0}
        sorted(p) == \A i, j \in DOMAIN p :
                        i < j => inv[p[i]].inbound_date >= inv[p[j]].inbound_date
    IN {[i \in DOMAIN p |-> [lot |-> p[i][2], loc |-> p[i][3], qty |-> inv[p[i]].quantity]] :
            p \in {q \in Perms(K) : sorted(q)}}

\* SELECT lot, location, quantity FROM inventory WHERE sku = s AND quantity > 0
\* ORDER BY inbound_date ASC: every order of the rows that the dates allow
SelectAvailable(inv, sku) ==
    LET K == {k \in RowsOf(inv, sku) : inv[k].quantity > 0}
        sorted(p) == \A i, j \in DOMAIN p :
                        i < j => inv[p[i]].inbound_date <= inv[p[j]].inbound_date
    IN {[i \in DOMAIN p |-> [lot |-> p[i][2], loc |-> p[i][3], qty |-> inv[p[i]].quantity]] :
            p \in {q \in Perms(K) : sorted(q)}}

RECURSIVE total_available(_)
total_available(stock) ==
    IF stock = <<>> THEN 0 ELSE Head(stock).qty + total_available(Tail(stock))

\* a stock check that lets every request through
always_enough(total, qty) == FALSE

\* if total_available < quantity
not_enough(total, qty) == total < qty

\* a deduction that takes the whole lot whatever is still asked for
whole_lot(remaining, current_qty) == current_qty

qty_to_deduct_from_lot(remaining, current_qty) == Min(remaining, current_qty)

\* a write that takes the deduction off twice
deducted_twice(current_qty, deduct) == current_qty - deduct - deduct

new_qty_in_lot(current_qty, deduct) == current_qty - deduct

\* new_quantity = existing_record[0] + quantity; the other form keeps only
\* the quantity that came in
quantity_alone(existing_quantity, quantity) == quantity

new_quantity_after(existing_quantity, quantity) == existing_quantity + quantity

\* the quantities the model can hold
InRange(inv) == \A k \in Keys : inv[k] # NoRow => inv[k].quantity <= MaxQty

\* ------------------------------------------- bot2: process_outbound_items
out_select(w) ==
    /\ h[w].pc = "out_select"
    /\ \E available_stock \in SelectAvailable(inventory, cur(w).sku) :
         h' = [h EXCEPT ![w] =
                 IF available_stock = <<>>
                   THEN Finish(h[w], FALSE, "No stock found", FALSE, inventory, reservations)
                 ELSE IF not_enough(total_available(available_stock), cur(w).qty)
                   THEN Finish([h[w] EXCEPT !.stock = available_stock], FALSE,
                               "Insufficient stock", FALSE, inventory, reservations)
                 ELSE [h[w] EXCEPT !.pc = "out_update", !.snap = available_stock,
                                   !.stock = available_stock, !.remaining = cur(w).qty]]
    /\ UNCHANGED <<inventory, reservations, trip>>
    /\ Logged(w)

out_update(w) ==
    /\ h[w].pc = "out_update"
    /\ LET row    == Head(h[w].snap)
           deduct == qty_to_deduct_from_lot(h[w].remaining, row.qty)
           inv    == UpdateQuantity(inventory, <<cur(w).sku, row.lot, row.loc>>,
                                    new_qty_in_lot(row.qty, deduct))
           hr     == [h[w] EXCEPT !.snap = Tail(@), !.remaining = @ - deduct,
                                  !.deds = Append(@, [lot |-> row.lot, loc |-> row.loc,
                                                      qty |-> deduct])]
       IN /\ inventory' = inv
          /\ h' = [h EXCEPT ![w] =
                     IF hr.snap = <<>> \/ hr.remaining <= 0
                       THEN Finish(hr, TRUE, "none", TRUE, inv, reservations)
                       ELSE hr]
    /\ UNCHANGED <<reservations, trip>>
    /\ Logged(w)

\* --------------------------------------------- bot2: process_reserve_item
\* generate_id_stamp("RES"): an id no reservation and no running handler holds
FreeIds == {id \in ReserveIds : reservations[id] = NoRes
                                /\ \A v \in Workers : h[v].newrid # id}

\* the flags the two stock checks leave (neither check returns)
reserve_flags(available_stock, qty) ==
    IF not_enough(total_available(available_stock), qty)
      THEN [ok |-> FALSE, err |-> "Insufficient stock"]
    ELSE IF available_stock = <<>>
      THEN [ok |-> FALSE, err |-> "No stock found"]
    ELSE [ok |-> TRUE, err |-> "none"]

res_select(w) ==
    /\ h[w].pc = "res_select"
    /\ \E available_stock \in SelectAvailable(inventory, cur(w).sku), id \in FreeIds :
         LET f == reserve_flags(available_stock, cur(w).qty) IN
         h' = [h EXCEPT ![w] =
                 [@ EXCEPT !.ok = f.ok, !.err = f.err, !.snap = available_stock,
                           !.stock = available_stock,
                           !.remaining = cur(w).qty, !.newrid = id,
                           !.pc = IF available_stock = <<>> THEN "res_insert"
                                  ELSE "res_update"]]
    /\ UNCHANGED <<inventory, reservations, trip>>
    /\ Logged(w)

res_update(w) ==
    /\ h[w].pc = "res_update"
    /\ LET row    == Head(h[w].snap)
           deduct == qty_to_deduct_from_lot(h[w].remaining, row.qty)
           hr     == [h[w] EXCEPT !.snap = Tail(@), !.remaining = @ - deduct,
                                  !.deds = Append(@, [lot |-> row.lot, loc |-> row.loc,
                                                      qty |-> deduct])]
       IN /\ inventory' = UpdateQuantity(inventory, <<cur(w).sku, row.lot, row.loc>>,
                                         new_qty_in_lot(row.qty, deduct))
          /\ h' = [h EXCEPT ![w] =
                     IF hr.snap = <<>> \/ hr.remaining <= 0
                       THEN [hr EXCEPT !.pc = "res_insert"]
                       ELSE hr]
    /\ UNCHANGED <<reservations, trip>>
    /\ Logged(w)

\* the same row, but naming the lot and location of the last deduction
reservation_at_last(sku, qty, reserved_lots_locs) ==
    [NoRes EXCEPT !.sku = sku, !.quantity = qty, !.status = "PENDING",
        !.reserved_lot = IF reserved_lots_locs # <<>>
                           THEN reserved_lots_locs[Len(reserved_lots_locs)].lot ELSE None,
        !.reserved_location = IF reserved_lots_locs # <<>>
                                THEN reserved_lots_locs[Len(reserved_lots_locs)].loc ELSE None]

\* the row INSERT INTO reservations writes
new_reservation(sku, qty, reserved_lots_locs) ==
    [NoRes EXCEPT !.sku = sku, !.quantity = qty, !.status = "PENDING",
        !.reserved_lot = IF reserved_lots_locs # <<>> THEN reserved_lots_locs[1].lot ELSE None,
        !.reserved_location = IF reserved_lots_locs # <<>> THEN reserved_lots_locs[1].loc ELSE None]

res_insert(w) ==
    /\ h[w].pc = "res_insert"
    /\ LET res == [reservations EXCEPT ![h[w].newrid] =
                      new_reservation(cur(w).sku, cur(w).qty, h[w].deds)]
       IN /\ reservations' = res
          /\ h' = [h EXCEPT ![w] = Finish(h[w], h[w].ok, h[w].err, TRUE, inventory, res)]
    /\ UNCHANGED <<inventory, trip>>
    /\ Logged(w)

\* --------------------------------------------- bot2: process_reserve_pick
\* a lookup that also asks for status = 'PENDING'
matches_pending(res, it) ==
    /\ res[it.rid] # NoRes
    /\ res[it.rid].sku = it.sku
    /\ res[it.rid].reserved_lot = it.lot
    /\ res[it.rid].reserved_location = it.loc
    /\ res[it.rid].status = "PENDING"

\* WHERE reserve_id = %s AND sku = %s AND reserved_lot = %s AND reserved_location = %s
\* (a NULL reserved_lot equals no parameter)
Matches(res, it) ==
    /\ res[it.rid] # NoRes
    /\ res[it.rid].sku = it.sku
    /\ res[it.rid].reserved_lot = it.lot
    /\ res[it.rid].reserved_location = it.loc

\* a lookup by reserve id, SKU, lot and location only
pick_any_status(res, it) ==
    /\ res[it.rid] # NoRes
    /\ res[it.rid].sku = it.sku
    /\ res[it.rid].reserved_lot = it.lot
    /\ res[it.rid].reserved_location = it.loc

pick_found(res, it) == Matches(res, it) /\ res[it.rid].status = "PENDING"

\* a quantity check that lets every pick through
never_over(qty, reserved_qty) == FALSE

over_pick(qty, reserved_qty) == qty > reserved_qty

pick_select(w) ==
    /\ h[w].pc = "pick_select"
    /\ h' = [h EXCEPT ![w] =
               IF ~pick_found(reservations, cur(w))
                 THEN Finish(h[w], FALSE, "Reservation not found", FALSE, inventory, reservations)
               ELSE IF over_pick(cur(w).qty, reservations[cur(w).rid].quantity)
                 THEN Finish(h[w], FALSE, "Over pick", FALSE, inventory, reservations)
               ELSE [h[w] EXCEPT !.pc = "pick_update"]]
    /\ UNCHANGED <<inventory, reservations, trip>>
    /\ Logged(w)

\* UPDATE reservations SET ... WHERE reserve_id = %s: no row, no change
set_picked(res, rid) ==
    IF res[rid] = NoRes THEN res
    ELSE [res EXCEPT ![rid].status = "PICKED", ![rid].picked_by = User]

set_returned(res, rid) ==
    IF res[rid] = NoRes THEN res
    ELSE [res EXCEPT ![rid].status = "RETURNED", ![rid].returned_by = User]

set_cancelled(res, rid) ==
    IF res[rid] = NoRes THEN res
    ELSE [res EXCEPT ![rid].status = "CANCELLED", ![rid].cancelled_by = User]

\* a pick that also puts the picked quantity back on the lot
pick_and_restock(w) ==
    /\ h[w].pc = "pick_update"
    /\ LET res == set_picked(reservations, cur(w).rid)
           inv == AddQuantity(inventory, <<cur(w).sku, cur(w).lot, cur(w).loc>>, cur(w).qty)
       IN /\ reservations' = res
          /\ inventory' = inv
          /\ h' = [h EXCEPT ![w] = Finish(h[w], TRUE, "none", TRUE, inv, res)]
    /\ UNCHANGED trip
    /\ Logged(w)

pick_update(w) ==
    /\ h[w].pc = "pick_update"
    /\ LET res == set_picked(reservations, cur(w).rid)
       IN /\ reservations' = res
          /\ h' = [h EXCEPT ![w] = Finish(h[w], TRUE, "none", TRUE, inventory, res)]
    /\ UNCHANGED <<inventory, trip>>
    /\ Logged(w)

\* ------------------------------------------- bot2: process_reserve_return
ret_select(w) ==
    /\ h[w].pc = "ret_select"
    /\ h' = [h EXCEPT ![w] =
               IF ~Matches(reservations, cur(w))
                 THEN Finish(h[w], FALSE, "Reservation not found", FALSE, inventory, reservations)
               ELSE [h[w] EXCEPT !.pc = "ret_update_inventory"]]
    /\ UNCHANGED <<inventory, reservations, trip>>
    /\ Logged(w)

ret_update_inventory(w) ==
    /\ h[w].pc = "ret_update_inventory"
    /\ inventory' = AddQuantity(inventory, <<cur(w).sku, cur(w).lot, cur(w).loc>>, cur(w).qty)
    /\ InRange(inventory')
    /\ h' = [h EXCEPT ![w].pc = "ret_update_reserve"]
    /\ UNCHANGED <<reservations, trip>>
    /\ Logged(w)

ret_update_reserve(w) ==
    /\ h[w].pc = "ret_update_reserve"
    /\ LET res == set_returned(reservations, cur(w).rid)
       IN /\ reservations' = res
          /\ h' = [h EXCEPT ![w] = Finish(h[w], TRUE, "none", TRUE, inventory, res)]
    /\ UNCHANGED <<inventory, trip>>
    /\ Logged(w)

\* ------------------------------------------- bot2: process_reserve_cancel
\* a lookup without AND status = 'PENDING'
cancel_any_status(res, rid) == res[rid] # NoRes

cancel_found(res, rid) == res[rid] # NoRes /\ res[rid].status = "PENDING"

\* reserve_record = (sku, quantity, reserved_lot, reserved_location) is kept in
\* the handler: target is the lot and location, new_quantity the quantity
can_select(w) ==
    /\ h[w].pc = "can_select"
    /\ h' = [h EXCEPT ![w] =
               IF ~cancel_found(reservations, cur(w).rid)
                 THEN Finish(h[w], FALSE, "Reservation not found", FALSE, inventory, reservations)
               ELSE LET r == reservations[cur(w).rid] IN
                    [h[w] EXCEPT !.pc = "can_update_inventory",
                                 !.target = <<r.reserved_lot, r.reserved_location>>,
                                 !.new_quantity = r.quantity,
                                 !.items = <<[cur(w) EXCEPT !.sku = r.sku]>>]]
    /\ UNCHANGED <<inventory, reservations, trip>>
    /\ Logged(w)

\* a cancel that writes the status first and the ledger with it
can_status_first(w) ==
    /\ h[w].pc = "can_update_inventory"
    /\ reservations' = set_cancelled(reservations, cur(w).rid)
    /\ inventory' = AddQuantity(inventory,
                                <<cur(w).sku, h[w].target[1], h[w].target[2]>>,
                                h[w].new_quantity)
    /\ InRange(inventory')
    /\ h' = [h EXCEPT ![w].pc = "can_update_reserve"]
    /\ UNCHANGED trip
    /\ Logged(w)

can_update_inventory(w) ==
    /\ h[w].pc = "can_update_inventory"
    /\ inventory' = AddQuantity(inventory,
                                <<cur(w).sku, h[w].target[1], h[w].target[2]>>,
                                h[w].new_quantity)
    /\ InRange(inventory')
    /\ h' = [h EXCEPT ![w].pc = "can_update_reserve"]
    /\ UNCHANGED <<reservations, trip>>
    /\ Logged(w)

can_update_reserve(w) ==
    /\ h[w].pc = "can_update_reserve"
    /\ LET res == set_cancelled(reservations, cur(w).rid)
       IN /\ reservations' = res
          /\ h' = [h EXCEPT ![w] = Finish(h[w], TRUE, "none", TRUE, inventory, res)]
    /\ UNCHANGED <<inventory, trip>>
    /\ Logged(w)

\* ------------------------------------------ bot2: process_cancel_out_item
\* a lookup that passes over the records that hold nothing
co_select_in_stock(w) ==
    /\ h[w].pc = "co_select_any"
    /\ LET in_stock == {k \in RowsOf(inventory, cur(w).sku) : inventory[k].quantity > 0} IN
       \E target \in IF in_stock = {}
                       THEN {<<CANCELLED_LOT, CANCELLED_LOC>>}
                       ELSE {<<k[2], k[3]>> : k \in in_stock} :
         h' = [h EXCEPT ![w].pc = "co_select_exact", ![w].target = target]
    /\ UNCHANGED <<inventory, reservations, trip>>
    /\ Logged(w)

\* SELECT lot, location FROM inventory WHERE sku = %s LIMIT 1: some row of the
\* SKU (the statement gives no order), or none
co_select_any(w) ==
    /\ h[w].pc = "co_select_any"
    /\ \E target \in IF RowsOf(inventory, cur(w).sku) = {}
                       THEN {<<CANCELLED_LOT, CANCELLED_LOC>>}
                       ELSE {<<k[2], k[3]>> : k \in RowsOf(inventory, cur(w).sku)} :
         h' = [h EXCEPT ![w].pc = "co_select_exact", ![w].target = target]
    /\ UNCHANGED <<inventory, reservations, trip>>
    /\ Logged(w)

co_select_exact(w) ==
    /\ h[w].pc = "co_select_exact"
    /\ LET key == <<cur(w).sku, h[w].target[1], h[w].target[2]>> IN
       h' = [h EXCEPT ![w] =
               IF Exists(inventory, key)
                 THEN [@ EXCEPT !.pc = "co_update",
                                !.new_quantity = new_quantity_after(inventory[key].quantity,
                                                                    cur(w).qty)]
                 ELSE [@ EXCEPT !.pc = "co_insert"]]
    /\ UNCHANGED <<inventory, reservations, trip>>
    /\ Logged(w)

co_update(w) ==
    /\ h[w].pc = "co_update"
    /\ inventory' = UpdateQuantity(inventory,
                                   <<cur(w).sku, h[w].target[1], h[w].target[2]>>,
                                   h[w].new_quantity)
    /\ InRange(inventory')
    /\ h' = [h EXCEPT ![w] = Finish(h[w], TRUE, "none", TRUE, inventory', reservations)]
    /\ UNCHANGED <<reservations, trip>>
    /\ Logged(w)

\* INSERT INTO inventory: a second row for the same (sku, lot, location) is
\* refused by the store (see StoreError)
\* an insert that stamps the first date whatever date is given
insert_undated(inv, key, qty, date) ==
    [inv EXCEPT ![key] = [quantity |-> qty, inbound_date |-> CHOOSE d \in Dates :
                                                               \A e \in Dates : d <= e]]

InsertRow(inv, key, qty, date) == [inv EXCEPT ![key] = [quantity |-> qty, inbound_date |-> date]]

co_insert(w) ==
    /\ h[w].pc = "co_insert"
    /\ LET key == <<cur(w).sku, h[w].target[1], h[w].target[2]>> IN
       /\ ~Exists(inventory, key)
       /\ \E today \in Dates : inventory' = InsertRow(inventory, key, cur(w).qty, today)
    /\ InRange(inventory')
    /\ h' = [h EXCEPT ![w] = Finish(h[w], TRUE, "none", TRUE, inventory', reservations)]
    /\ UNCHANGED <<reservations, trip>>
    /\ Logged(w)

\* ------------------------ bot1: process_inbound_item, process_return_item
\* (the two handlers are the same code but for their messages)
in_select(w) ==
    /\ h[w].pc = "in_select"
    /\ LET key == <<cur(w).sku, cur(w).lot, cur(w).loc>> IN
       h' = [h EXCEPT ![w] =
               IF Exists(inventory, key)
                 THEN [@ EXCEPT !.pc = "in_update",
                                !.new_quantity = new_quantity_after(inventory[key].quantity,
                                                                    cur(w).qty)]
                 ELSE [@ EXCEPT !.pc = "in_insert"]]
    /\ UNCHANGED <<inventory, reservations, trip>>
    /\ Logged(w)

in_update(w) ==
    /\ h[w].pc = "in_update"
    /\ inventory' = UpdateQuantity(inventory, <<cur(w).sku, cur(w).lot, cur(w).loc>>,
                                   h[w].new_quantity)
    /\ InRange(inventory')
    /\ h' = [h EXCEPT ![w] = Finish(h[w], TRUE, "none", TRUE, inventory', reservations)]
    /\ UNCHANGED <<reservations, trip>>
    /\ Logged(w)

in_insert(w) ==
    /\ h[w].pc = "in_insert"
    /\ LET key == <<cur(w).sku, cur(w).lot, cur(w).loc>> IN
       /\ ~Exists(inventory, key)
       /\ inventory' = InsertRow(inventory, key, cur(w).qty, cur(w).date)
    /\ InRange(inventory')
    /\ h' = [h EXCEPT ![w] = Finish(h[w], TRUE, "none", TRUE, inventory', reservations)]
    /\ UNCHANGED <<reservations, trip>>
    /\ Logged(w)

\* ------------------------------------------- bot1: process_adjust_in_item
\* a lookup that always finds a record
always_existing(inv, key) == TRUE

\* if existing_record
existing_record(inv, key) == Exists(inv, key)

\* an adjustment check that also rejects a new quantity of 0
zero_or_negative_after(new_quantity) == new_quantity <= 0

\* an adjustment check that rejects nothing
never_negative(new_quantity) == FALSE

negative_after(new_quantity) == new_quantity < 0

adj_select(w) ==
    /\ h[w].pc = "adj_select"
    /\ LET key == <<cur(w).sku, cur(w).lot, cur(w).loc>> IN
       h' = [h EXCEPT ![w] =
               IF ~existing_record(inventory, key)
                 THEN Finish(h[w], FALSE, "Item not found for adjustment", FALSE,
                             inventory, reservations)
               ELSE IF negative_after(new_quantity_after(inventory[key].quantity, cur(w).qty))
                 THEN Finish(h[w], FALSE, "Negative quantity after adjustment", FALSE,
                             inventory, reservations)
               ELSE [@ EXCEPT !.pc = "adj_update",
                              !.new_quantity = new_quantity_after(inventory[key].quantity,
                                                                  cur(w).qty)]]
    /\ UNCHANGED <<inventory, reservations, trip>>
    /\ Logged(w)

adj_update(w) ==
    /\ h[w].pc = "adj_update"
    /\ inventory' = UpdateQuantity(inventory, <<cur(w).sku, cur(w).lot, cur(w).loc>>,
                                   h[w].new_quantity)
    /\ InRange(inventory')
    /\ h' = [h EXCEPT ![w] = Finish(h[w], TRUE, "none", TRUE, inventory', reservations)]
    /\ UNCHANGED <<reservations, trip>>
    /\ Logged(w)

\* ------------------------------------- db_connector: a statement that fails
\* execute_query raises (mysql.connector.Error); the statement has no effect and
\* the handler's except branch ends the item with a general error.  An INSERT of
\* a row whose key exists is one such failure.
Statements == {"out_select", "out_update", "res_select", "res_update", "res_insert",
               "pick_select", "pick_update", "ret_select", "ret_update_inventory",
               "ret_update_reserve", "can_select", "can_update_inventory",
               "can_update_reserve", "co_select_any", "co_select_exact", "co_update",
               "co_insert", "in_select", "in_update", "in_insert", "adj_select",
               "adj_update", "ck_select"}

\* a failing statement that also takes back what the item had written
store_error_rolls_back(w) ==
    /\ h[w].pc \in Statements
    /\ inventory' = h[w].before
    /\ h' = [h EXCEPT ![w] = Finish(h[w], FALSE, "General error", FALSE,
                                    h[w].before, reservations)]
    /\ UNCHANGED <<reservations, trip>>
    /\ Logged(w)

StoreError(w) ==
    /\ h[w].pc \in Statements
    /\ h' = [h EXCEPT ![w] = Finish(h[w], FALSE, "General error", FALSE,
                                    inventory, reservations)]
    /\ UNCHANGED <<inventory, reservations, trip>>
    /\ Logged(w)

\* ----------------------------------------------------- commands received
NoArg == Item(None, 0, None, None, 0, None)

\* the items a command of the kind may carry, quantities from lo up
ItemsFrom(kind, lo) ==
    CASE kind = "out" ->
           {[NoArg EXCEPT !.sku = s, !.qty = q] : s \in SKUs, q \in lo..MaxReq}
      [] kind \in {"in", "return"} ->
           {Item(s, q, l, c, d, None) :
              s \in SKUs, q \in lo..MaxQty, l \in Lots, c \in Locs, d \in Dates}
      [] kind = "adjust_in" ->
           {Item(s, q, l, c, d, None) :
              s \in SKUs, q \in (0 - MaxQty)..MaxQty, l \in Lots, c \in Locs, d \in {1}}
      [] kind = "cancel_out" ->
           {[NoArg EXCEPT !.sku = s, !.qty = q] : s \in SKUs, q \in lo..MaxQty}
      [] kind = "reserve" ->
           {[NoArg EXCEPT !.sku = s, !.qty = q] : s \in SKUs, q \in lo..MaxReq}
      [] kind = "reserve_pick" ->
           {Item(s, q, l, c, 0, id) :
              s \in SKUs, q \in lo..MaxReq, l \in Lots, c \in Locs, id \in ReserveIds}
      [] kind = "reserve_return" ->
           {Item(s, q, l, c, 0, id) :
              s \in SKUs, q \in lo..MaxQty, l \in Lots, c \in Locs, id \in ReserveIds}
      [] kind = "reserve_cancel" ->
           {[NoArg EXCEPT !.rid = id] : id \in ReserveIds}

ItemsOf(kind) == ItemsFrom(kind, 0)

Bot1Kinds == {"in", "return", "adjust_in"}
Bot2Kinds == {"out", "cancel_out", "reserve", "reserve_pick", "reserve_return",
              "reserve_cancel"}

\* the item lists of a command of the kind: one item, or up to n for the
\* commands parse_multi_param_command splits
CommandsOver(items, kind, n) ==
    UNION {[1..m -> items] : m \in 1..(IF kind \in MultiItemKinds THEN n ELSE 1)}

Commands(kind, n) == CommandsOver(ItemsOf(kind), kind, n)

\* the record an item is about
KeyOf(it) == <<it.sku, it.lot, it.loc>>

NoTrip == [rid |-> None, sku |-> None, total |-> 0, ok |-> FALSE]

\* a handler whose function is left by the exception of an append that failed:
\* it ends before its first statement and returns no result line
begin_raises_without_log(w, kind, items) ==
    /\ h[w].pc = "idle"
    /\ kind = "reserve" => Cardinality(FreeIds) >
                             Cardinality({v \in Workers : h[v].pc = "res_select"})
    /\ h' = [h EXCEPT ![w] =
               IF writable
                 THEN Advance([Idle EXCEPT !.kind = kind, !.items = items], 1,
                              inventory, reservations)
                 ELSE [Idle EXCEPT !.kind = kind, !.items = items, !.pc = "done"]]
    /\ trip' = IF kind = "reserve_cancel" /\ items[1].rid = trip.rid THEN trip ELSE NoTrip
    /\ UNCHANGED <<inventory, reservations>>
    /\ Logged(w)

\* A process_* function is entered by a handler that has received a command
\* (received: the handler's record with what it knows of the command); it runs
\* to its first statement.
BeginFrom(w, received, kind, items) ==
    /\ h[w].pc = "idle"
    /\ kind = "reserve" => Cardinality(FreeIds) >
                             Cardinality({v \in Workers : h[v].pc = "res_select"})
    /\ h' = [h EXCEPT ![w] = Advance([received EXCEPT !.kind = kind, !.items = items], 1,
                                     inventory, reservations)]
    /\ trip' = IF kind = "reserve_cancel" /\ items[1].rid = trip.rid THEN trip ELSE NoTrip
    /\ UNCHANGED <<inventory, reservations>>
    /\ Logged(w)

\* A process_* function is entered with the command of caller user_id.
BeginAs(w, user_id, kind, items) ==
    BeginFrom(w, [Idle EXCEPT !.user_id = user_id], kind, items)

\* A handler is entered with a command of User; it runs to its first statement.
Begin(w, kind, items) == BeginAs(w, User, kind, items)

\* The handler returns its result lines and the reply is sent.
Reply(w) ==
    /\ h[w].pc = "done"
    /\ h' = [h EXCEPT ![w] = Idle]
    /\ trip' = IF h[w].kind = "reserve" /\ h[w].results[1].msg_ok
                 THEN [rid |-> h[w].results[1].rid, sku |-> h[w].items[1].sku,
                       ok |-> h[w].results[1].ok,
                       total |-> TotalOf(h[w].results[1].before, h[w].items[1].sku)]
                 ELSE NoTrip
    /\ UNCHANGED <<inventory, reservations>>
    /\ Logged(w)

Bot2Step(w) ==
    \/ out_select(w) \/ out_update(w)
    \/ res_select(w) \/ res_update(w) \/ res_insert(w)
    \/ pick_select(w) \/ pick_update(w)
    \/ ret_select(w) \/ ret_update_inventory(w) \/ ret_update_reserve(w)
    \/ can_select(w) \/ can_update_inventory(w) \/ can_update_reserve(w)
    \/ co_select_any(w) \/ co_select_exact(w) \/ co_update(w) \/ co_insert(w)

Bot1Step(w) ==
    \/ in_select(w) \/ in_update(w) \/ in_insert(w)
    \/ adj_select(w) \/ adj_update(w)

\* --------------------------------------------------------- specifications
EmptyReservations == [id \in ReserveIds |-> NoRes]

\* the ledgers bot1's commands leave: any rows of the lots, no synthetic row
Rows == {[quantity |-> q, inbound_date |-> d] : q \in 0..MaxQty, d \in Dates}
Ledgers == {inv \in [Keys -> Rows \cup {NoRow}] :
              \A k \in Keys : k[2] = CANCELLED_LOT => inv[k] = NoRow}

\* Spec: the bot2 process.  It handles its updates one by one (the handlers
\* never yield between their statements), on a ledger that bot1 has filled.
Init ==
    /\ inventory \in Ledgers
    /\ reservations = EmptyReservations
    /\ h = [w \in Workers |-> Idle]
    /\ trip = NoTrip
    /\ log = EmptyLog
    /\ writable = TRUE
    /\ super_admin = users_json.super_admin

Start == \E kind \in Bot2Kinds : \E items \in Commands(kind, 1) : Begin(1, kind, items)

Next == Start \/ Bot2Step(1) \/ StoreError(1) \/ Reply(1)

Spec == Init /\ [][Next]_vars

\* SpecConc: two handler instances on the one store, each handling one command
\* of any kind; their statements interleave freely (the store serialises single
\* statements only).
Close(w) ==
    /\ h[w].pc = "done"
    /\ h' = [h EXCEPT ![w].pc = "closed"]
    /\ UNCHANGED <<inventory, reservations, trip>>
    /\ Logged(w)

\* Handler 1 is the outbound bot's process; handler 2 is either bot's process.
KindsOf(w) == IF w = 1 THEN Bot2Kinds ELSE Bot1Kinds \cup Bot2Kinds

StartAny(w) ==
    /\ h[w].pc = "idle"
    /\ \E kind \in KindsOf(w) : \E items \in Commands(kind, 1) :
          Begin(w, kind, items)

NextConc ==
    \E w \in Workers :
        StartAny(w) \/ Bot1Step(w) \/ Bot2Step(w) \/ StoreError(w) \/ Close(w)

\* Lot A, when present, is the older lot.
InitConc ==
    /\ inventory \in {inv \in Ledgers : \A k \in Keys :
                         inv[k] # NoRow => inv[k].inbound_date = (IF k[2] = "A" THEN 1 ELSE 2)}
    /\ reservations = EmptyReservations
    /\ h = [w \in Workers |-> Idle]
    /\ trip = NoTrip
    /\ log = EmptyLog
    /\ writable = TRUE
    /\ super_admin = users_json.super_admin

SpecConc == InitConc /\ [][NextConc]_vars

\* SpecBot1: the inbound bot's process alone, its commands one after another;
\* a command carries up to MaxItems items, all for one record.
MaxItems == 2

StartBot1 ==
    /\ h[1].pc = "idle"
    /\ \E kind \in Bot1Kinds : \E items \in Commands(kind, MaxItems) :
          /\ \A i \in DOMAIN items : KeyOf(items[i]) = KeyOf(items[1])
          /\ Begin(1, kind, items)

NextBot1 == StartBot1 \/ Bot1Step(1) \/ StoreError(1) \/ Reply(1)

SpecBot1 == Init /\ [][NextBot1]_vars

\* SpecOnce: one command of any kind, quantities below zero included, against a
\* store that holds any ledger and at most one pending reservation.
PendingAt(inv) ==
    {[EmptyReservations EXCEPT ![id] =
         new_reservation(k[1], q, <<[lot |-> k[2], loc |-> k[3], qty |-> q]>>)] :
       id \in ReserveIds, q \in 1..MaxReq,
       k \in {x \in Keys : inv[x] # NoRow /\ x[2] # CANCELLED_LOT}}

InitOnce ==
    /\ inventory \in Ledgers
    /\ reservations \in {EmptyReservations} \cup PendingAt(inventory)
    /\ h = [w \in Workers |-> Idle]
    /\ trip = NoTrip
    /\ log = EmptyLog
    /\ writable = TRUE
    /\ super_admin = users_json.super_admin

StartOnce ==
    /\ h[1].pc = "idle"
    /\ \E kind \in Bot1Kinds \cup Bot2Kinds :
          \E items \in CommandsOver(ItemsFrom(kind, 0 - MaxReq), kind, 1) :
              Begin(1, kind, items)

NextOnce == StartOnce \/ Bot1Step(1) \/ Bot2Step(1) \/ StoreError(1) \/ Close(1)

SpecOnce == InitOnce /\ [][NextOnce]_vars

\* SpecOnceFair: the same, where a handler that has been entered keeps running:
\* every execute_query call returns or raises.
SpecOnceFair == SpecOnce /\ WF_vars(NextOnce)

\* --------------------------------------------------- bot2: /reserve_CK
\* an SKU no record and no reservation is about
OtherSku == "Y"

\* the rows `SELECT ... FROM reservations WHERE status = 'PENDING' [AND sku = %s]
\* ORDER BY reservation_date ASC` returns
PendingRows(res, sku_filter) ==
    LET ids == {id \in ReserveIds : /\ res[id].status = "PENDING"
                                    /\ sku_filter # None => res[id].sku = sku_filter}
    IN {[i \in DOMAIN p |-> [rid |-> p[i], sku |-> res[p[i]].sku, qty |-> res[p[i]].quantity,
                             status |-> res[p[i]].status]] : p \in Perms(ids)}

\* process_reserve_ck: its one statement
ck_select(w) ==
    /\ h[w].pc = "ck_select"
    /\ \E reserved_items \in PendingRows(reservations, cur(w).sku) :
         h' = [h EXCEPT ![w] = Finish([h[w] EXCEPT !.stock = reserved_items], TRUE, "none",
                                      TRUE, inventory, reservations)]
    /\ UNCHANGED <<inventory, reservations, trip>>
    /\ Logged(w)

\* `sku_filter = args[0] if context.args else None`: the function binds
\* command_args, never args, and the module has no such name, so args[0] raises
\* NameError whenever the command has an argument
sku_filter_of(context_args) == IF context_args # <<>> THEN "NameError" ELSE None

\* handle_reserve_ck_command: an exception leaves the handler before
\* process_reserve_ck is called (the dispatcher hands it to error_handler)
handle_reserve_ck_command(w) ==
    /\ h[w].pc = "idle"
    /\ \E context_args \in {<<>>} \cup {<<s>> : s \in SKUs \cup {OtherSku}} :
         LET sku_filter == sku_filter_of(context_args) IN
         IF sku_filter = "NameError"
           THEN /\ h' = [h EXCEPT ![w] =
                          [Idle EXCEPT !.kind = "reserve_ck", !.pc = "raised",
                                       !.items = <<[NoArg EXCEPT !.sku = context_args[1]]>>]]
                /\ UNCHANGED <<inventory, reservations, trip, log, writable, super_admin>>
           ELSE Begin(w, "reserve_ck", <<[NoArg EXCEPT !.sku = sku_filter]>>)

\* SpecCheck: one /reserve_CK against any ledger and at most one reservation of
\* any status.
ReservedAt(inv) ==
    {[r EXCEPT ![id].status = st] :
        r \in PendingAt(inv), id \in ReserveIds, st \in {"PENDING"} \cup Terminal}

InitCheck ==
    /\ inventory \in Ledgers
    /\ reservations \in {EmptyReservations} \cup ReservedAt(inventory)
    /\ h = [w \in Workers |-> Idle]
    /\ trip = NoTrip
    /\ log = EmptyLog
    /\ writable = TRUE
    /\ super_admin = users_json.super_admin

NextCheck == handle_reserve_ck_command(1) \/ ck_select(1) \/ StoreError(1) \/ Close(1)

SpecCheck == InitCheck /\ [][NextCheck]_vars

\* SpecLog: one command of any kind, while the log file can become unwritable
\* and writable again at any moment (disk full, permissions, a missing folder).
DiskChange ==
    /\ writable' = ~writable
    /\ UNCHANGED <<inventory, reservations, h, trip, log, super_admin>>

InitLog ==
    /\ inventory \in Ledgers
    /\ reservations \in {EmptyReservations} \cup PendingAt(inventory)
    /\ h = [w \in Workers |-> Idle]
    /\ trip = NoTrip
    /\ log = EmptyLog
    /\ writable \in BOOLEAN
    /\ super_admin = users_json.super_admin

StartLog ==
    /\ h[1].pc = "idle"
    /\ \E kind \in Bot1Kinds \cup Bot2Kinds : \E items \in Commands(kind, 1) :
          Begin(1, kind, items)

NextLog == StartLog \/ Bot1Step(1) \/ Bot2Step(1) \/ StoreError(1) \/ Close(1) \/ DiskChange

SpecLog == InitLog /\ [][NextLog]_vars

\* ------------------------------------------- bot4: /restoredb and its confirmation
\* the callers of the admin bot
Callers == {Admin, User}

\* is_super_admin: users.json is read anew at every call
is_super_admin(user_id) == user_id \in super_admin

\* the names a /restoredb may give: a dump in the Backup folder, a name that is
\* not there, or no single name at all (len(args) != 1)
BackupFiles == {"backup.sql", "missing.sql"}

exists(backup_file_name) == backup_file_name = "backup.sql"

\* an entry log_transaction_to_file or update_transaction_log_file_status writes
log_entry(w, entry, status, command_type) ==
    [id_stamp |-> id_stamp(w), entry |-> entry, status |-> status,
     command_type |-> command_type, error_details |-> <<>>]

Appended(w, entries) ==
    [log EXCEPT ![id_stamp(w)] = IF writable THEN @ \o entries ELSE @]

\* refused confirmations of one request that the model follows
MaxConfirm == 2

\* handle_restoredb_command: a caller who is not a super admin, or a command
\* without exactly one argument, is turned away with a FAILED entry; otherwise
\* the request is kept in the caller's user_data and the PENDING_CONFIRMATION
\* entry written
restoredb_request(w) ==
    /\ h[w].pc = "idle"
    /\ \E user_id \in Callers, file \in BackupFiles \cup {None} :
         IF ~is_super_admin(user_id) \/ file = None
           THEN /\ log' = Appended(w, <<log_entry(w, "open", "FAILED", "restoredb")>>)
                /\ h' = [h EXCEPT ![w] = [Idle EXCEPT !.kind = "restoredb", !.pc = "closed",
                                                      !.user_id = user_id]]
           ELSE /\ log' = Appended(w, <<log_entry(w, "open", "PENDING_CONFIRMATION",
                                                  "restoredb")>>)
                /\ h' = [h EXCEPT ![w] = [Idle EXCEPT !.kind = "restoredb",
                                                      !.pc = "pending_confirmation",
                                                      !.user_id = user_id,
                                                      !.backup_file_name = file]]
    /\ UNCHANGED <<inventory, reservations, trip, writable, super_admin>>

\* a lookup in one store shared by all the users
shared_restore_data(w, user_id) == h[w].pc = "pending_confirmation"

\* context.user_data.get('restore_confirm_<IdStamp>'): user_data is the store
\* of the user who sent the message, so the request is found by the one who
\* made it, until it is popped
pending_restore_data(w, user_id) ==
    h[w].pc = "pending_confirmation" /\ h[w].user_id = user_id

\* the "restore_confirm" entries written for refused confirmations
Refusals(w) ==
    {i \in DOMAIN log[id_stamp(w)] : log[id_stamp(w)][i].command_type = "restore_confirm"}

\* handle_confirmation: a message "ยืนยัน <IdStamp>" from any user at any time.
\* A request that is not found leaves everything as it is; a sender who is no
\* super admin (any more) gets a FAILED entry and the request stays; otherwise
\* the request is popped and restore_database entered, which writes its
\* PROCESSING entry and ends at once when the file is not there
handle_confirmation(w) ==
    \E user_id \in Callers :
        IF ~pending_restore_data(w, user_id)
          THEN UNCHANGED vars
          ELSE IF ~is_super_admin(user_id)
            THEN /\ Cardinality(Refusals(w)) < MaxConfirm
                 /\ log' = Appended(w, <<log_entry(w, "open", "FAILED", "restore_confirm")>>)
                 /\ UNCHANGED <<inventory, reservations, h, trip, writable, super_admin>>
            ELSE /\ LET confirmed == log_entry(w, "open", "PROCESSING", "restoredb_confirmed") IN
                    IF exists(h[w].backup_file_name)
                      THEN /\ log' = Appended(w, <<confirmed>>)
                           /\ h' = [h EXCEPT ![w].pc = "restore_run",
                                             ![w].confirmed_by = user_id]
                      ELSE /\ log' = Appended(w, <<confirmed,
                                                   log_entry(w, "close", "FAILED", "restoredb")>>)
                           /\ h' = [h EXCEPT ![w].pc = "closed",
                                             ![w].confirmed_by = user_id,
                                             ![w].overall_success = FALSE]
                 /\ UNCHANGED <<inventory, reservations, trip, writable, super_admin>>

\* the 30 seconds the warning gives for the confirmation go by
window_elapses(w) ==
    /\ h[w].pc = "pending_confirmation"
    /\ ~h[w].elapsed
    /\ h' = [h EXCEPT ![w].elapsed = TRUE]
    /\ UNCHANGED <<inventory, reservations, trip, log, writable, super_admin>>

\* update_user_permissions for the "super_admin" list, called by /adduser and
\* /removeuser of a super admin
update_user_permissions ==
    /\ \E user_id_admin \in Callers, user_id_target \in Callers, action \in {"add", "remove"} :
         /\ is_super_admin(user_id_admin)
         /\ super_admin' = IF action = "add" THEN super_admin \cup {user_id_target}
                                             ELSE super_admin \ {user_id_target}
         /\ super_admin' # super_admin
    /\ UNCHANGED <<inventory, reservations, h, trip, log, writable>>

\* subprocess.run(["mysql", ...], stdin=f, check=True): the dump replaces both
\* tables; a client that fails may have replaced them already or not
restore_run(w) ==
    /\ h[w].pc = "restore_run"
    /\ \E overall_success \in BOOLEAN :
         /\ \E dump \in IF overall_success THEN Ledgers ELSE Ledgers \cup {inventory} :
              /\ inventory' = dump
              /\ reservations' = IF dump = inventory THEN reservations ELSE EmptyReservations
         /\ log' = Appended(w, <<log_entry(w, "close",
                                           IF overall_success THEN "SUCCESS" ELSE "FAILED",
                                           "restoredb")>>)
         /\ h' = [h EXCEPT ![w].pc = "closed", ![w].overall_success = overall_success]
    /\ UNCHANGED <<trip, writable, super_admin>>

\* SpecRestore: the admin bot's process with /restoredb requests and their
\* confirmation messages, the super admins staying who they are.  A restore that
\* has been started runs to its end; whether a confirmation is ever sent is up
\* to the user.
NextRestore ==
    \E w \in Workers : restoredb_request(w) \/ handle_confirmation(w) \/ restore_run(w)

SpecRestore == Init /\ [][NextRestore]_vars /\ WF_vars(\E w \in Workers : restore_run(w))

\* SpecConfirm: one /restoredb request, with the confirmation messages of any
\* user at any time, the 30 seconds going by, and /adduser and /removeuser
\* changing the super admins meanwhile.
NextConfirm ==
    \/ restoredb_request(1)
    \/ handle_confirmation(1)
    \/ window_elapses(1)
    \/ restore_run(1)
    \/ update_user_permissions

SpecConfirm == Init /\ [][NextConfirm]_vars

\* SpecItems: one command of a kind that takes several items: up to MaxItems
\* items for one record (outbound: one SKU), quantities of 0 and dates that do
\* not parse included.
ItemsWide(kind) ==
    CASE kind = "out" ->
           {[NoArg EXCEPT !.sku = s, !.qty = q] : s \in SKUs, q \in 0..MaxReq}
      [] kind \in {"in", "return"} ->
           {Item(s, q, l, c, d, None) :
              s \in SKUs, q \in 0..MaxQty, l \in Lots, c \in Locs, d \in {0, 1}}
      [] kind = "adjust_in" ->
           {Item(s, q, l, c, d, None) :
              s \in SKUs, q \in (0 - MaxQty)..MaxQty, l \in Lots, c \in Locs, d \in {0, 1}}

StartItems ==
    /\ h[1].pc = "idle"
    /\ \E kind \in MultiItemKinds :
          \E items \in CommandsOver(ItemsWide(kind), kind, MaxItems) :
              /\ \A i \in DOMAIN items : KeyOf(items[i]) = KeyOf(items[1])
              /\ Begin(1, kind, items)

NextItems == StartItems \/ Bot1Step(1) \/ out_select(1) \/ out_update(1)
                \/ StoreError(1) \/ Close(1)

SpecItems == InitConc /\ [][NextItems]_vars

\* SpecRace: a pending reservation and two requests about it, a
\* /reserve_cancel or a /reserve_return each, whose statements interleave in
\* any order (one after the other included).
StartRace(w) ==
    /\ h[w].pc = "idle"
    /\ \E kind \in {"reserve_cancel", "reserve_return"} :
          \E items \in Commands(kind, 1) : Begin(w, kind, items)

NextRace ==
    \E w \in Workers :
        \/ StartRace(w)
        \/ ret_select(w) \/ ret_update_inventory(w) \/ ret_update_reserve(w)
        \/ can_select(w) \/ can_update_inventory(w) \/ can_update_reserve(w)
        \/ StoreError(w) \/ Close(w)

SpecRace == InitOnce /\ [][NextRace]_vars

\* SpecKey: two inbound, return, adjustment or outbound commands of one item
\* each, handled by two processes on the one store; their statements interleave
\* in any order.
StartKey(w) ==
    /\ h[w].pc = "idle"
    /\ \E kind \in MultiItemKinds : \E items \in Commands(kind, 1) : Begin(w, kind, items)

NextKey ==
    \E w \in Workers :
        StartKey(w) \/ Bot1Step(w) \/ out_select(w) \/ out_update(w)
          \/ StoreError(w) \/ Close(w)

SpecKey == InitConc /\ [][NextKey]_vars

\* --------------------------------------- utils: who may use which bot
\* the callers: User may use both bots, u2 the inbound bot only, u3 none, and
\* Admin is a super admin
UserIds == {Admin, User, "u2", "u3"}

\* a check that lets in whoever is on the list of any bot
allowed_on_some_bot(user_id, bot_id) ==
    user_id \in users_json.bot1 \cup users_json.bot2 \cup users_json.super_admin

\* get_allowed_user_ids(bot_id) and is_user_allowed(user_id, bot_id)
is_user_allowed(user_id, bot_id) == user_id \in users_json[bot_id] \cup super_admin

\* the bot whose process handles the command
BOT_ID(kind) == IF kind \in Bot1Kinds THEN "bot1" ELSE "bot2"

\* handle_*_command of the two ledger bots: a caller who is not allowed gets one
\* FAILED entry (log_transaction_to_file) and the handler returns; the others
\* enter the process_* function.  The reservations' picked_by, returned_by and
\* cancelled_by columns are written as User for every caller let in.
handle_command(w) ==
    /\ h[w].pc = "idle"
    /\ \E user_id \in UserIds, kind \in Bot1Kinds \cup Bot2Kinds :
         \E items \in Commands(kind, 1) :
           IF ~is_user_allowed(user_id, BOT_ID(kind))
             THEN /\ log' = Appended(w, <<log_entry(w, "open", "FAILED", kind)>>)
                  /\ h' = [h EXCEPT ![w] = [Idle EXCEPT !.kind = kind, !.items = items,
                                                        !.user_id = user_id,
                                                        !.overall_success = FALSE,
                                                        !.pc = "closed"]]
                  /\ UNCHANGED <<inventory, reservations, trip, writable, super_admin>>
             ELSE BeginAs(w, user_id, kind, items)

\* SpecAuth: one command of any kind from any caller, against any ledger and at
\* most one pending reservation.
NextAuth == handle_command(1) \/ Bot1Step(1) \/ Bot2Step(1) \/ StoreError(1) \/ Close(1)

SpecAuth == InitOnce /\ [][NextAuth]_vars

\* --------------------------------------------- multi-item command parsing
\* a parser that hands the incomplete last chunk on as an item, filled up with
\* the tokens of the first
completes_last_chunk(parts, expected_params_per_item) ==
    LET k == expected_params_per_item
        n == Len(parts)
        r == n % k
        complete == [j \in 1..(n \div k) |-> SubSeq(parts, (j - 1) * k + 1, j * k)]
    IN  IF n >= k /\ r > 0
          THEN Append(complete, SubSeq(parts, n - r + 1, n) \o SubSeq(parts, r + 1, k))
          ELSE complete

\* the loop of parse_multi_param_command from token i on (tokens count from 1):
\* chunk = parts[i:i + k]; a chunk of k tokens is appended, a shorter one ends
\* the loop
RECURSIVE chunks_from(_, _, _)
chunks_from(parts, expected_params_per_item, i) ==
    IF i > Len(parts) THEN <<>>
    ELSE LET chunk == SubSeq(parts, i, Min(i + expected_params_per_item - 1, Len(parts))) IN
         IF Len(chunk) = expected_params_per_item
           THEN <<chunk>> \o chunks_from(parts, expected_params_per_item,
                                         i + expected_params_per_item)
           ELSE <<>>

parse_multi_param_command(parts, expected_params_per_item) ==
    chunks_from(parts, expected_params_per_item, 1)

\* /in SKU QTY LOT DATE LOCATION ..., /out SKU QTY REASON ...
params_per_item(kind) == IF kind = "in" THEN 5 ELSE 3

\* the tokens a caller types for an item
args_of(kind, it) ==
    IF kind = "in" THEN <<it.sku, it.qty, it.lot, it.date, it.loc>>
                   ELSE <<it.sku, it.qty, "reason">>

\* skus = [item[0] ...], quantities = [item[1] ...], ...: the item a chunk is
item_of(kind, chunk) ==
    IF kind = "in" THEN Item(chunk[1], chunk[2], chunk[3], chunk[5], chunk[4], None)
                   ELSE [NoArg EXCEPT !.sku = chunk[1], !.qty = chunk[2]]

RECURSIVE join(_, _)
join(kind, items) ==
    IF items = <<>> THEN <<>> ELSE args_of(kind, Head(items)) \o join(kind, Tail(items))

\* handle_in_command, handle_out_command after the caller has been let in: the
\* text is up to MaxItems complete items for one record followed by up to
\* k - 1 tokens of one more (the last item begun again, or any item where none
\* is complete); a text without one complete item is refused with a FAILED
\* entry, the parsed items of any other are handed to the process_* function
handle_multi_item_command(w, kind) ==
    /\ h[w].pc = "idle"
    /\ \E typed \in Commands(kind, MaxItems) \cup {<<>>},
          r \in 0..(params_per_item(kind) - 1) :
       \E last \in IF typed = <<>> THEN ItemsOf(kind) ELSE {typed[Len(typed)]} :
          /\ \A j \in DOMAIN typed : KeyOf(typed[j]) = KeyOf(typed[1])
          /\ LET command_args == join(kind, typed) \o SubSeq(args_of(kind, last), 1, r)
                 parsed_items == parse_multi_param_command(command_args, params_per_item(kind))
                 received     == [Idle EXCEPT !.user_id = User, !.command_args = command_args]
             IN  IF Len(parsed_items) = 0
                   THEN /\ log' = Appended(w, <<log_entry(w, "open", "FAILED", kind)>>)
                        /\ h' = [h EXCEPT ![w] = [received EXCEPT !.kind = kind,
                                                                  !.overall_success = FALSE,
                                                                  !.pc = "closed"]]
                        /\ UNCHANGED <<inventory, reservations, trip, writable, super_admin>>
                   ELSE BeginFrom(w, received, kind,
                                  [j \in DOMAIN parsed_items |-> item_of(kind, parsed_items[j])])

handle_in_command(w) == handle_multi_item_command(w, "in")

handle_out_command(w) == handle_multi_item_command(w, "out")

\* SpecParse: one /in or /out command as typed, complete items and loose
\* tokens at its end
NextParse ==
    \/ handle_in_command(1) \/ handle_out_command(1)
    \/ in_select(1) \/ in_update(1) \/ in_insert(1)
    \/ out_select(1) \/ out_update(1)
    \/ StoreError(1) \/ Close(1)

SpecParse == InitConc /\ [][NextParse]_vars

\* --------------------------------------------------- bot3: movement report
\* entry.get(key) on a line of transactions.log: log_transaction_to_file writes
\* the keys "command_type" and "status"; update_transaction_log_file_status
\* writes "status_update" and neither of them
get(entry, key) ==
    CASE key = "command_type"  -> IF entry.entry = "open" THEN entry.command_type ELSE None
      [] key = "status"        -> IF entry.entry = "open" THEN entry.status ELSE None
      [] key = "status_update" -> IF entry.entry = "close" THEN entry.status ELSE None
      [] OTHER                 -> None

relevant_commands == {"in", "out", "adjust_in", "return", "reserve", "reserve_pick",
                      "reserve_return", "reserve_cancel"}

\* generate_report_data("movement", ...) for a range of dates that holds every
\* line's timestamp: the IdStamps of the rows of the report
filtered_movements ==
    {id \in DOMAIN log :
        \E i \in DOMAIN log[id] :
            LET entry == log[id][i] IN
            /\ get(entry, "command_type") # None
            /\ get(entry, "status") = "SUCCESS"
            /\ get(entry, "command_type") \in relevant_commands}

\* ------------------------------------------------------------ properties
\* the result lines the handlers hold
AllResults == UNION {{h[w].results[i] : i \in DOMAIN h[w].results} : w \in Workers}

AllocKinds == {"out", "reserve"}
Shortage == {"No stock found", "Insufficient stock"}

SumDeds(r) == SumSeq([i \in DOMAIN r.deds |-> r.deds[i].qty])

\* C1: in every reachable state, under any interleaving of the statements of
\* inbound, return, adjustment, outbound, cancel-outbound, reserve, pick,
\* reserve-return and reserve-cancel, no inventory record has a negative
\* quantity.
QuantityNeverNegative ==
    \A k \in Keys : inventory[k] # NoRow => inventory[k].quantity >= 0

\* an adjustment that would go below zero was rejected while an allocation of
\* the other handler took a record down to 0
C1Witness ==
    /\ \E r \in AllResults : /\ r.kind = "adjust_in"
                             /\ r.item.qty < 0
                             /\ r.err = "Negative quantity after adjustment"
    /\ \E r \in AllResults : r.kind \in AllocKinds /\ r.ok /\ r.item.qty > 0
    /\ \E k \in Keys : inventory[k] # NoRow /\ inventory[k].quantity = 0

\* C2: a reservation that is PICKED, RETURNED or CANCELLED is never changed
\* again, neither its status nor its picked/returned/cancelled metadata.
TerminalIsFinal ==
    [][\A id \in ReserveIds :
          reservations[id].status \in Terminal => reservations'[id] = reservations[id]]_vars

\* C3: a reserve of more than the SKU's total quantity (the store answering every
\* statement) fails with insufficient stock and leaves the ledger as it was.
ReserveBeyondStockChangesNothing ==
    \A r \in AllResults :
        (/\ r.kind = "reserve"
         /\ r.err # "General error"
         /\ r.item.qty > TotalOf(r.before, r.item.sku))
        => /\ ~r.ok
           /\ r.err \in Shortage
           /\ r.after = r.before

\* C4: an outbound or a reserve reduces a newer lot only if it leaves every
\* older lot that had stock at 0.
FifoOrder ==
    \A r \in AllResults :
        r.kind \in AllocKinds =>
            \A k1, k2 \in RowsOf(r.before, r.item.sku) :
                (/\ r.before[k1].quantity > 0
                 /\ r.before[k2].quantity > 0
                 /\ r.before[k1].inbound_date < r.before[k2].inbound_date
                 /\ r.after[k2].quantity < r.before[k2].quantity)
                => r.after[k1].quantity = 0

\* a successful allocation that went through an older lot into a newer one
C4Witness ==
    \E r \in AllResults :
        /\ r.kind \in AllocKinds
        /\ r.ok
        /\ \E k1, k2 \in RowsOf(r.before, r.item.sku) :
              /\ r.before[k1].quantity > 0
              /\ r.before[k1].inbound_date < r.before[k2].inbound_date
              /\ r.after[k2].quantity < r.before[k2].quantity
              /\ r.after[k2].quantity > 0

\* what the ledger lost is what the deductions say
DeductionsApplied(r) ==
    TotalOf(r.before, r.item.sku) - TotalOf(r.after, r.item.sku) = SumDeds(r)

\* C5 (as stated): the deductions of an outbound or reserve of N units sum to at
\* most N, to fewer than N only when insufficient stock is reported, and to
\* exactly N on a reported success.  (Commands refused before any deduction was
\* written are left aside: they only have to fail.)
DeductionsSumOrShortage ==
    \A r \in AllResults :
        (r.kind \in AllocKinds /\ r.item.qty > 0) =>
            /\ DeductionsApplied(r)
            /\ SumDeds(r) <= r.item.qty
            /\ SumDeds(r) = 0 => ~r.ok
            /\ (0 < SumDeds(r) /\ SumDeds(r) < r.item.qty) => r.err \in Shortage
            /\ r.ok => SumDeds(r) = r.item.qty

\* C5 (amended): the deductions sum to at most N, to fewer than N only when the
\* operation reports a failure (insufficient stock, or a statement the store
\* refused), and to exactly N on a reported success.
DeductionsSumOrFailure ==
    \A r \in AllResults :
        (r.kind \in AllocKinds /\ r.item.qty > 0) =>
            /\ DeductionsApplied(r)
            /\ SumDeds(r) <= r.item.qty
            /\ SumDeds(r) < r.item.qty => (~r.ok /\ r.err \in Shortage \cup {"General error"})
            /\ r.ok => SumDeds(r) = r.item.qty

\* a deduction was written, then a later statement was refused
C5Witness ==
    \E r \in AllResults :
        /\ r.kind \in AllocKinds
        /\ r.err = "General error"
        /\ SumDeds(r) > 0
        /\ SumDeds(r) < r.item.qty

\* C6: an outbound item asking for more than the SKU's total quantity fails (with
\* insufficient stock whenever the stock query was answered) and writes nothing.
OutboundBeyondStockChangesNothing ==
    \A r \in AllResults :
        (r.kind = "out" /\ r.item.qty > TotalOf(r.before, r.item.sku)) =>
            /\ ~r.ok
            /\ r.err \in Shortage \cup {"General error"}
            /\ r.deds = <<>>
            /\ r.after = r.before

\* an outbound refused for a SKU that has stock, but not enough
C6Witness ==
    \E r \in AllResults :
        /\ r.kind = "out"
        /\ r.err = "Insufficient stock"
        /\ TotalOf(r.before, r.item.sku) > 0
        /\ r.item.qty > TotalOf(r.before, r.item.sku)

\* C7: two outbound or reserve requests for one SKU that interleave can both
\* read the same rows and both succeed; the ledger then loses fewer units than
\* the two were given, because the later write of a lot overwrites the earlier.
Ended(w) == h[w].pc \in {"done", "closed"} /\ Len(h[w].results) = 1

BothAllocated(w1, w2) ==
    /\ w1 # w2
    /\ Ended(w1) /\ Ended(w2)
    /\ LET r1 == h[w1].results[1]
           r2 == h[w2].results[1]
       IN /\ r1.kind \in AllocKinds /\ r2.kind \in AllocKinds
          /\ r1.ok /\ r2.ok
          /\ r1.item.sku = r2.item.sku
          /\ r1.stock = r2.stock

Cancels == {r \in AllResults : r.kind = "reserve_cancel"}

\* C8: Reserve(sku, N) followed by Cancel of the id the reserve reply gave
\* restores the SKU's total quantity to what it was before the reserve.
RoundTripRestoresTotal ==
    \A r \in Cancels :
        (r.ok /\ trip.rid # None /\ r.item.rid = trip.rid) =>
            TotalOf(r.after, trip.sku) = trip.total

\* C9: Cancel succeeds only on a PENDING reservation; on an unknown, PICKED,
\* RETURNED or CANCELLED one it fails with reservation-not-found (or with the
\* store's refusal of the lookup) and changes neither table.
CancelOnlyFromPending ==
    \A r \in Cancels :
        /\ r.ok => r.rbefore[r.item.rid].status = "PENDING"
        /\ r.rbefore[r.item.rid].status # "PENDING" =>
              /\ ~r.ok
              /\ r.err \in {"Reservation not found", "General error"}
              /\ r.after = r.before
              /\ r.rafter = r.rbefore

\* a cancel refused for a reservation that had been picked
C9Witness ==
    \E r \in Cancels :
        /\ r.rbefore[r.item.rid].status = "PICKED"
        /\ r.err = "Reservation not found"

\* C10: a successful Cancel adds the reservation's quantity to the record at
\* (sku, reserved_lot, reserved_location), changes no other record, and leaves
\* the reservation CANCELLED.
CancelReinstatesAtReservedLot ==
    \A r \in Cancels :
        r.ok =>
            LET v   == r.rbefore[r.item.rid]
                key == <<v.sku, v.reserved_lot, v.reserved_location>>
            IN /\ Exists(r.before, key)
               /\ r.after = [r.before EXCEPT ![key].quantity = @ + v.quantity]
               /\ r.rafter[r.item.rid].status = "CANCELLED"

\* C11: a successful Reserve(sku, N) takes exactly N off the SKU's total and
\* adds one reservation under an id not used before, PENDING, of quantity N, at
\* the lot and location of the first deduction, which is the oldest lot in stock.
ReserveCarvesAndRecords ==
    \A r \in AllResults :
        (r.kind = "reserve" /\ r.ok) =>
            /\ TotalOf(r.before, r.item.sku) - TotalOf(r.after, r.item.sku) = r.item.qty
            /\ r.rid \in ReserveIds
            /\ r.rbefore[r.rid] = NoRes
            /\ r.deds # <<>>
            /\ r.rafter = [r.rbefore EXCEPT ![r.rid] =
                  [NoRes EXCEPT !.sku = r.item.sku, !.quantity = r.item.qty,
                                !.status = "PENDING",
                                !.reserved_lot = r.deds[1].lot,
                                !.reserved_location = r.deds[1].loc]]
            /\ \A k \in RowsOf(r.before, r.item.sku) :
                  r.before[k].quantity > 0 =>
                      r.before[<<r.item.sku, r.deds[1].lot, r.deds[1].loc>>].inbound_date
                          <= r.before[k].inbound_date

\* a successful reserve that took from two lots
C11Witness ==
    \E r \in AllResults : r.kind = "reserve" /\ r.ok /\ Len(r.deds) = 2

\* the results of pick commands
Picks == {r \in AllResults : r.kind = "reserve_pick"}

\* the reservation the item names: same id, SKU, lot and location
Named(r) ==
    LET v == r.rbefore[r.item.rid]
    IN /\ v # NoRes
       /\ v.sku = r.item.sku
       /\ v.reserved_lot = r.item.lot
       /\ v.reserved_location = r.item.loc

NamedPending(r) == Named(r) /\ r.rbefore[r.item.rid].status = "PENDING"

\* C12: a pick, successful or failed, leaves the ledger as it was.
PickLeavesLedger ==
    \A r \in Picks : r.after = r.before

\* a pick that succeeded
C12Witness ==
    \E r \in Picks : r.ok /\ r.rafter[r.item.rid].status = "PICKED"

\* C13: on a matching PENDING reservation a pick of more than the reserved
\* quantity fails with over-pick and leaves the reservation as it was; a pick of
\* 0 < quantity <= reserved quantity succeeds (the store answering) and sets
\* PICKED.
PickWithinReserved ==
    \A r \in Picks :
        (NamedPending(r) /\ r.item.qty > 0) =>
            IF r.item.qty > r.rbefore[r.item.rid].quantity
              THEN /\ ~r.ok
                   /\ r.err \in {"Over pick", "General error"}
                   /\ r.rafter = r.rbefore
              ELSE /\ r.err # "General error" => r.ok
                   /\ r.ok => r.rafter[r.item.rid].status = "PICKED"
                   /\ ~r.ok => r.rafter = r.rbefore

\* a pick refused for asking more than was reserved
C13Witness ==
    \E r \in Picks :
        /\ NamedPending(r)
        /\ r.err = "Over pick"
        /\ r.rafter[r.item.rid].status = "PENDING"

\* C14: a pick succeeds only on a PENDING reservation with the given id, SKU,
\* lot and location; any other pick fails with reservation-not-found (or the
\* store's refusal of the lookup) and changes no reservation.
PickOnlyNamedPending ==
    \A r \in Picks :
        /\ r.ok => NamedPending(r)
        /\ (r.item.qty > 0 /\ ~NamedPending(r)) =>
              /\ ~r.ok
              /\ r.err \in {"Reservation not found", "General error"}
              /\ r.rafter = r.rbefore

\* a pick refused because the lot given is not the reserved lot
C14Witness ==
    \E r \in Picks :
        /\ r.rbefore[r.item.rid].status = "PENDING"
        /\ r.rbefore[r.item.rid].sku = r.item.sku
        /\ r.rbefore[r.item.rid].reserved_lot # r.item.lot
        /\ r.err = "Reservation not found"

\* the results of reserve-return commands
Returns == {r \in AllResults : r.kind = "reserve_return"}

RECURSIVE AppliedSum(_)
AppliedSum(rs) ==
    IF rs = <<>> THEN 0
    ELSE (IF Head(rs).ok THEN Head(rs).item.qty ELSE 0) + AppliedSum(Tail(rs))

\* the items handled so far are inbound items on one key that had no record
FreshKeyRun(w) ==
    /\ h[w].kind = "in"
    /\ h[w].results # <<>>
    /\ \A i \in DOMAIN h[w].results :
          KeyOf(h[w].results[i].item) = KeyOf(h[w].results[1].item)
    /\ ~Exists(h[w].results[1].before, KeyOf(h[w].results[1].item))

\* C16: after inbound items handled one after another on a key that had no
\* record, the record's quantity is the sum of the quantities applied (and there
\* is no record while none was applied).
InboundSums ==
    \A w \in Workers :
        FreshKeyRun(w) =>
            LET rs   == h[w].results
                key  == KeyOf(rs[1].item)
                last == rs[Len(rs)].after
            IN IF AppliedSum(rs) = 0 THEN ~Exists(last, key)
               ELSE Exists(last, key) /\ last[key].quantity = AppliedSum(rs)

\* two inbound items on a fresh key, both applied
C16Witness ==
    \E w \in Workers :
        /\ FreshKeyRun(w)
        /\ Len(h[w].results) = 2
        /\ h[w].results[1].ok /\ h[w].results[2].ok

\* the results of adjustment items
Adjusts == {r \in AllResults : r.kind = "adjust_in"}

\* C17: an adjustment by D of a record holding Q is refused when Q + D < 0 and
\* leaves Q; when Q + D >= 0 it sets the quantity to Q + D (the store answering).
AdjustKeepsNonNegative ==
    \A r \in Adjusts :
        Exists(r.before, KeyOf(r.item)) =>
            LET key == KeyOf(r.item)
                Q   == r.before[key].quantity
                D   == r.item.qty
            IN IF Q + D < 0
                 THEN /\ ~r.ok
                      /\ r.err \in {"Negative quantity after adjustment", "General error"}
                      /\ r.after = r.before
                 ELSE /\ r.err # "General error" => r.ok
                      /\ r.ok => r.after = [r.before EXCEPT ![key].quantity = Q + D]
                      /\ ~r.ok => r.after = r.before

\* one adjustment refused for going below zero, another taking a record to 0
C17Witness ==
    /\ \E r \in Adjusts : /\ r.err = "Negative quantity after adjustment"
                          /\ r.before[KeyOf(r.item)].quantity > 0
    /\ \E r \in Adjusts : /\ r.ok
                          /\ r.item.qty < 0
                          /\ r.after[KeyOf(r.item)].quantity = 0

\* C18: an adjustment on a key without a record fails with record-not-found and
\* creates no record, whatever the sign of the delta.
AdjustNeedsRecord ==
    \A r \in Adjusts :
        ~Exists(r.before, KeyOf(r.item)) =>
            /\ ~r.ok
            /\ r.err \in {"Item not found for adjustment", "General error"}
            /\ r.after = r.before

\* a positive and a negative adjustment, both refused for want of a record
C18Witness ==
    /\ \E r \in Adjusts : r.item.qty > 0 /\ r.err = "Item not found for adjustment"
    /\ \E r \in Adjusts : r.item.qty < 0 /\ r.err = "Item not found for adjustment"

\* the results of inbound and return items
Receipts == {r \in AllResults : r.kind \in {"in", "return"}}

CreatesOrAdds ==
    \A r \in Receipts :
        r.ok =>
            LET key == KeyOf(r.item)
            IN IF Exists(r.before, key)
                 THEN r.after = [r.before EXCEPT ![key].quantity = @ + r.item.qty]
                 ELSE r.after = [r.before EXCEPT ![key] =
                                    [quantity |-> r.item.qty, inbound_date |-> r.item.date]]

DateKept ==
    \A k \in Keys :
        Exists(inventory, k) =>
            /\ Exists(inventory', k)
            /\ inventory'[k].inbound_date = inventory[k].inbound_date

\* C19: inbound and return create an absent record with the quantity and the
\* date given, add the quantity to an existing record and leave its date; no
\* step changes the inbound date of a record that exists.
InboundDateFixed == []CreatesOrAdds /\ [][DateKept]_vars

\* a record created with the later date, and a record of another date added to
C19Witness ==
    /\ \E r \in Receipts : /\ r.ok
                           /\ ~Exists(r.before, KeyOf(r.item))
                           /\ r.after[KeyOf(r.item)].inbound_date = 2
    /\ \E r \in Receipts : /\ r.ok
                           /\ Exists(r.before, KeyOf(r.item))
                           /\ r.before[KeyOf(r.item)].inbound_date # r.item.date

\* the commands that take a quantity which must be positive
QuantityKinds == {"in", "return", "out", "cancel_out", "reserve", "reserve_pick",
                  "reserve_return"}

\* C20: inbound, return, outbound, cancel-outbound, reserve, pick and
\* reserve-return refuse a quantity <= 0 without reaching any statement: both
\* tables stay as they were.
NonPositiveRefused ==
    /\ \A w \in Workers :
          (h[w].pc \in Statements /\ h[w].kind \in QuantityKinds) => cur(w).qty > 0
    /\ \A w \in Workers :
          (Ended(w) /\ h[w].kind \in QuantityKinds /\ h[w].results[1].item.qty <= 0) =>
              LET r == h[w].results[1]
              IN /\ ~r.ok
                 /\ r.err = "Invalid quantity (non-positive)"
                 /\ r.deds = <<>>
                 /\ inventory = r.before
                 /\ reservations = r.rbefore

\* a pick of 0 on a pending reservation and an inbound below zero, both refused
C20Witness ==
    \E w \in Workers :
        /\ Ended(w)
        /\ h[w].kind \in {"reserve_pick", "in"}
        /\ h[w].results[1].item.qty < 0
        /\ h[w].results[1].err = "Invalid quantity (non-positive)"
        /\ \E id \in ReserveIds : reservations[id].status = "PENDING"

\* an allocation whose stock query returned more rows than it deducted from
\* before the store refused a statement: the refused statement is a deduction
\* after the first
LaterDeductionRefused(r) ==
    /\ r.kind \in AllocKinds
    /\ r.err = "General error"
    /\ r.deds # <<>>
    /\ Len(r.deds) < Len(r.stock)
    /\ SumDeds(r) < r.item.qty

\* C21: when the store refuses a later per-lot deduction of an outbound or a
\* reserve, the deductions written before it stay in the ledger, each lot
\* holding what the deduction left, and the operation reports a failure.
CommittedDeductionsStay ==
    \A r \in AllResults :
        LaterDeductionRefused(r) =>
            /\ ~r.ok
            /\ ~r.msg_ok
            /\ \A i \in DOMAIN r.deds :
                  LET key == <<r.item.sku, r.deds[i].lot, r.deds[i].loc>>
                  IN /\ r.deds[i].qty > 0
                     /\ r.after[key].quantity = r.before[key].quantity - r.deds[i].qty
            /\ TotalOf(r.after, r.item.sku) < TotalOf(r.before, r.item.sku)

\* an outbound of two units over two lots, refused at its second deduction
C21Witness ==
    \E r \in AllResults : /\ LaterDeductionRefused(r)
                           /\ r.kind = "out"
                           /\ Len(r.stock) = 2
                           /\ SumDeds(r) = 1

\* what an item did to the total of its SKU, by its own result line
Effect(r) ==
    IF r.kind = "out" THEN 0 - SumDeds(r)
    ELSE IF r.ok THEN r.item.qty
    ELSE 0

\* C22: a command of several items (inbound, return, adjustment, outbound) that
\* has ended has one result line per item, in order; every item started from
\* the ledger the item before it left, whether that one failed or not, and
\* every item's own change (none when it failed without writing) is in the
\* ledger at the end.
ItemsIndependent ==
    \A w \in Workers :
        (h[w].pc \in {"done", "closed"} /\ h[w].kind \in MultiItemKinds) =>
            LET rs == h[w].results IN
            /\ Len(rs) = Len(h[w].items)
            /\ \A i \in DOMAIN rs :
                  /\ rs[i].item = h[w].items[i]
                  /\ TotalOf(rs[i].after, rs[i].item.sku)
                       = TotalOf(rs[i].before, rs[i].item.sku) + Effect(rs[i])
                  /\ (~rs[i].ok /\ rs[i].deds = <<>>) => rs[i].after = rs[i].before
                  /\ i < Len(rs) => rs[i + 1].before = rs[i].after
            /\ inventory = rs[Len(rs)].after

\* an outbound of two items: the first is refused for want of stock, the second
\* is applied
C22Witness ==
    \E w \in Workers :
        /\ h[w].pc = "closed"
        /\ h[w].kind = "out"
        /\ Len(h[w].results) = 2
        /\ h[w].results[1].err = "Insufficient stock"
        /\ h[w].results[2].ok
        /\ TotalOf(inventory, h[w].items[2].sku)
             < TotalOf(h[w].results[1].before, h[w].items[1].sku)

\* the entries of one IdStamp: at most an open entry (PROCESSING) followed by at
\* most one close entry (SUCCESS or FAILED)
WellFormed(id) ==
    LET es == log[id] IN
    /\ Len(es) <= 2
    /\ \A i \in DOMAIN es : es[i].id_stamp = id
    /\ Len(es) >= 1 => (es[1].entry = "open" /\ es[1].status = "PROCESSING")
    /\ Len(es) = 2 => (es[2].entry = "close" /\ es[2].status \in {"SUCCESS", "FAILED"})

\* the log of a handler by its position: nothing before it is entered, the open
\* entry alone while it runs, both entries once it has returned
LogLifecycle ==
    \A w \in Workers :
        /\ WellFormed(id_stamp(w))
        /\ h[w].pc = "idle" => Len(log[id_stamp(w)]) = 0
        /\ h[w].pc \in Statements =>
              (Len(log[id_stamp(w)]) = 1 /\ log[id_stamp(w)][1].command_type = h[w].kind)
        /\ h[w].pc \in {"done", "closed"} => Len(log[id_stamp(w)]) = 2

\* C23: every inbound, return, adjustment, outbound, cancel-outbound and
\* reservation operation appends one open entry (PROCESSING) when it is entered
\* and, however it ends, afterwards one close entry (SUCCESS or FAILED) of the
\* same IdStamp; no IdStamp has two close entries or a close entry that is not
\* preceded by its open entry.
OneOpenThenOneClose ==
    /\ []LogLifecycle
    /\ \A w \in Workers :
          (Len(log[id_stamp(w)]) = 1) ~> (Len(log[id_stamp(w)]) = 2)

\* an operation that a refused statement ended, with both its entries
C23Witness ==
    \E w \in Workers :
        /\ h[w].pc = "closed"
        /\ h[w].results[1].err = "General error"
        /\ Len(log[id_stamp(w)]) = 2
        /\ log[id_stamp(w)][1].status = "PROCESSING"
        /\ log[id_stamp(w)][2].status = "FAILED"

\* C24: the close entry of an inbound, return, adjustment or outbound command
\* has status SUCCESS exactly when every item of the command succeeded;
\* otherwise it is FAILED and its error details name every item that failed.
StatusTellsItems ==
    \A w \in Workers :
        (/\ h[w].pc \in {"done", "closed"}
         /\ h[w].kind \in MultiItemKinds
         /\ Len(log[id_stamp(w)]) = 2) =>
            LET rs    == h[w].results
                close == log[id_stamp(w)][2]
            IN /\ (close.status = "SUCCESS") <=> (\A i \in DOMAIN rs : rs[i].ok)
               /\ \A i \in DOMAIN rs :
                     ~rs[i].ok => \E j \in DOMAIN close.error_details :
                                     close.error_details[j] = [k |-> i, err |-> rs[i].err]

\* the close entries and the entries written with a final status
TerminalEntries(id) ==
    {i \in DOMAIN log[id] : log[id][i].status \in {"SUCCESS", "FAILED", "CANCELLED"}}

\* C25: a /restoredb request that has written its PENDING_CONFIRMATION entry is
\* eventually followed by exactly one entry with a final status (SUCCESS, FAILED
\* or CANCELLED) of the same IdStamp, also when no confirmation is ever sent.
PendingRestoreResolved ==
    \A w \in Workers :
        (\E i \in DOMAIN log[id_stamp(w)] :
            log[id_stamp(w)][i].status = "PENDING_CONFIRMATION")
        ~> (Cardinality(TerminalEntries(id_stamp(w))) = 1)

\* what a result line that reports success stands for in the two tables
Delivered(r) ==
    LET key == KeyOf(r.item)
        had == IF Exists(r.before, key) THEN r.before[key].quantity ELSE 0
        sku == r.item.sku
    IN CASE r.kind \in {"in", "return", "adjust_in"} ->
              /\ Exists(r.after, key) /\ r.after[key].quantity = had + r.item.qty
              /\ r.rafter = r.rbefore
         [] r.kind = "out" ->
              /\ TotalOf(r.after, sku) = TotalOf(r.before, sku) - r.item.qty
              /\ r.rafter = r.rbefore
         [] r.kind = "cancel_out" ->
              /\ TotalOf(r.after, sku) = TotalOf(r.before, sku) + r.item.qty
              /\ r.rafter = r.rbefore
         [] r.kind = "reserve" ->
              /\ TotalOf(r.after, sku) = TotalOf(r.before, sku) - r.item.qty
              /\ r.rafter[r.rid].status = "PENDING"
              /\ r.rafter[r.rid].quantity = r.item.qty
         [] r.kind = "reserve_pick" ->
              /\ r.after = r.before
              /\ r.rafter[r.item.rid].status = "PICKED"
         [] r.kind = "reserve_return" ->
              /\ r.after = AddQuantity(r.before, key, r.item.qty)
              /\ r.rafter[r.item.rid].status = "RETURNED"
         [] r.kind = "reserve_cancel" ->
              /\ r.rafter[r.item.rid].status = "CANCELLED"
              /\ TotalOf(r.after, r.rbefore[r.item.rid].sku)
                   >= TotalOf(r.before, r.rbefore[r.item.rid].sku)

\* C26: whether or not the entries of an operation could be appended to the
\* log, the operation returns a result line for every item, the tables hold
\* what its statements wrote, a success stands for the change asked for, and a
\* refusal (no statement refused by the store) for no change.
LogFailureKeepsOutcome ==
    \A w \in Workers :
        h[w].pc \in {"done", "closed"} =>
            LET rs == h[w].results IN
            /\ Len(rs) = Len(h[w].items)
            /\ inventory = rs[Len(rs)].after
            /\ reservations = rs[Len(rs)].rafter
            /\ \A i \in DOMAIN rs :
                  /\ rs[i].ok => Delivered(rs[i])
                  /\ (~rs[i].ok /\ ~rs[i].msg_ok /\ rs[i].err # "General error") =>
                        (rs[i].after = rs[i].before /\ rs[i].rafter = rs[i].rbefore)

\* an operation that changed the ledger and reported success while neither of
\* its two entries could be appended
C26Witness ==
    \E w \in Workers :
        /\ h[w].pc = "closed"
        /\ h[w].results[1].ok
        /\ h[w].results[1].after # h[w].results[1].before
        /\ log[id_stamp(w)] = <<>>
        /\ ~writable

CancelOuts == {r \in AllResults : r.kind = "cancel_out" /\ r.item.qty > 0}

\* the records an item left other than it found them
Changed(r) == {k \in Keys : r.after[k] # r.before[k]}

\* C27: a cancel-outbound of qty > 0 that the store lets through succeeds and
\* raises the SKU's total by exactly qty through exactly one record: a record
\* the SKU already had, whatever its quantity, if it had any, and otherwise a
\* new record at CANCELLED_LOT/CANCELLED_LOC holding qty.
CancelOutAddsToOneRecord ==
    \A r \in CancelOuts :
        /\ r.err # "General error" => r.ok
        /\ ~r.ok => r.after = r.before
        /\ r.ok =>
              /\ TotalOf(r.after, r.item.sku) = TotalOf(r.before, r.item.sku) + r.item.qty
              /\ Cardinality(Changed(r)) = 1
              /\ \A k \in Changed(r) :
                    IF RowsOf(r.before, r.item.sku) # {}
                      THEN /\ k \in RowsOf(r.before, r.item.sku)
                           /\ r.after[k] = [r.before[k] EXCEPT !.quantity = @ + r.item.qty]
                      ELSE /\ k = <<r.item.sku, CANCELLED_LOT, CANCELLED_LOC>>
                           /\ r.after[k].quantity = r.item.qty

\* a cancel-outbound that went to a record holding 0 while another record of
\* the SKU had stock
C27Witness ==
    \E r \in CancelOuts :
        /\ r.ok
        /\ \E k \in Changed(r) : r.before[k] # NoRow /\ r.before[k].quantity = 0
        /\ \E k \in RowsOf(r.before, r.item.sku) : r.before[k].quantity > 0

\* every record of the ledger is still a record after the step
RecordsKept == \A k \in Keys : inventory[k] # NoRow => inventory'[k] # NoRow

\* the rows an outbound or a reserve works through, and those it has deducted
\* from, are rows that held stock when it read them
SourcesHeldStock ==
    /\ \A w \in Workers : \A i \in DOMAIN h[w].snap : h[w].snap[i].qty > 0
    /\ \A r \in AllResults :
          r.kind \in AllocKinds =>
              /\ \A i \in DOMAIN r.stock : r.stock[i].qty > 0
              /\ \A i \in DOMAIN r.deds :
                    \E j \in DOMAIN r.stock : /\ r.stock[j].lot = r.deds[i].lot
                                               /\ r.stock[j].loc = r.deds[i].loc

\* C28: no step of inbound, return, adjustment, outbound, cancel-outbound,
\* reserve, pick, reserve-return or reserve-cancel removes a record from the
\* ledger (one that has come down to 0 stays), and no outbound or reserve takes
\* a record holding 0 as a source.
RecordsOnlyGrow == []SourcesHeldStock /\ [][RecordsKept]_vars

\* one allocation has taken a record down to 0; the record is still there and a
\* later allocation of the other handler has left it out of its sources
C28Witness ==
    \E r1, r2 \in AllResults :
        /\ r1.kind \in AllocKinds /\ r2.kind \in AllocKinds
        /\ r2.ok
        /\ \E k \in RowsOf(r1.before, r1.item.sku) :
              /\ r1.before[k].quantity > 0
              /\ r1.after[k].quantity = 0
              /\ r2.before[k].quantity = 0
              /\ inventory[k] # NoRow
              /\ \A i \in DOMAIN r2.stock : <<r2.item.sku, r2.stock[i].lot, r2.stock[i].loc>> # k

\* C29: a /reserve_CK command, with or without an SKU argument, ends with a
\* listing of exactly the PENDING reservations (of that SKU when one is given)
\* unless the store refuses its query, and leaves both tables as they were.
ReserveCheckListsPending ==
    \A w \in Workers :
        (h[w].kind = "reserve_ck" /\ h[w].pc \in {"done", "closed", "raised"}) =>
            /\ Len(h[w].results) = 1
            /\ LET r == h[w].results[1] IN
               /\ r.after = r.before /\ r.rafter = r.rbefore
               /\ r.err # "General error" =>
                     /\ r.ok
                     /\ {r.stock[i].rid : i \in DOMAIN r.stock}
                          = {id \in ReserveIds :
                               /\ r.rbefore[id].status = "PENDING"
                               /\ r.item.sku # None => r.rbefore[id].sku = r.item.sku}

\* C30: a reserve that reports a failure for a non-positive quantity, no stock
\* or insufficient stock leaves the reservations as they were and hands out no
\* reservation id.
FailedReservePersistsNothing ==
    \A r \in AllResults :
        (/\ r.kind = "reserve"
         /\ ~r.ok
         /\ r.err \in Shortage \cup {"Invalid quantity (non-positive)"}) =>
            /\ r.rafter = r.rbefore
            /\ ~r.msg_ok

\* the commands that work on the reservations table
ReserveKinds == {"reserve", "reserve_pick", "reserve_return", "reserve_cancel"}

\* what the store holds of an SKU: the sum of its records' quantities and of the
\* quantities of its PENDING reservations
StockAndPending(inv, res, sku) ==
    TotalOf(inv, sku)
    + SumOver({id \in ReserveIds : res[id].status = "PENDING" /\ res[id].sku = sku},
              [id \in ReserveIds |-> res[id].quantity])

\* C31: no Reserve, Pick, ReturnReservation or CancelReservation, whatever
\* commands came before it, leaves any SKU with a larger sum of ledger quantity
\* and PENDING reserved quantity than it found.
ReservationsCreateNoStock ==
    \A r \in AllResults :
        r.kind \in ReserveKinds =>
            \A s \in SKUs : StockAndPending(r.after, r.rafter, s)
                              <= StockAndPending(r.before, r.rbefore, s)

\* handler w has run its `UPDATE inventory SET quantity = quantity + %s` for
\* the reservation of its command
AddedBack(w) ==
    /\ h[w].kind \in {"reserve_cancel", "reserve_return"}
    /\ \/ h[w].pc \in {"can_update_reserve", "ret_update_reserve"}
       \/ h[w].results # <<>> /\ h[w].results[1].ok

\* C32: however the statements of concurrent Cancel and ReturnReservation
\* requests for one reservation interleave, at most one of the requests adds the
\* reservation's quantity back to the ledger.
ReinstatedAtMostOnce ==
    \A v, w \in Workers :
        (/\ v # w
         /\ AddedBack(v) /\ AddedBack(w)
         /\ h[v].items[1].rid = h[w].items[1].rid) => FALSE

\* the quantity of a record, 0 where there is none
QuantityAt(inv, key) == IF Exists(inv, key) THEN inv[key].quantity ELSE 0

\* what the reply of an operation says it did to the record at key: the quantity
\* received or adjusted by, or the deductions of an outbound taken from it
DeltaAt(r, key) ==
    IF ~r.ok THEN 0
    ELSE IF r.kind = "out"
      THEN 0 - SumSeq([i \in DOMAIN r.deds |->
                         IF <<r.item.sku, r.deds[i].lot, r.deds[i].loc>> = key
                           THEN r.deds[i].qty ELSE 0])
    ELSE IF KeyOf(r.item) = key THEN r.item.qty ELSE 0

\* both commands have ended with a success and both touched the record at key
BothApplied(v, w, key) ==
    /\ v # w
    /\ h[v].pc = "closed" /\ h[w].pc = "closed"
    /\ h[v].results[1].ok /\ h[w].results[1].ok
    /\ DeltaAt(h[v].results[1], key) # 0
    /\ DeltaAt(h[w].results[1], key) # 0

\* C33 as stated: whatever the interleaving of two operations on one record, the
\* record ends at its initial quantity plus the deltas both reported as applied
\* (the initial ledger is the one the first of the two was entered on).
NoUpdateLost ==
    \A v, w \in Workers : \A key \in Keys :
        BothApplied(v, w, key) =>
            \E first \in {v, w} :
                QuantityAt(inventory, key) =
                    QuantityAt(h[first].results[1].before, key)
                      + DeltaAt(h[v].results[1], key) + DeltaAt(h[w].results[1], key)

\* C33, amended: an operation writes the quantity it read plus its own delta,
\* so of two operations that both report success on one record at most one
\* update is overwritten: the record ends at its initial quantity plus both
\* deltas, or plus the delta of one of them alone.
AtMostOneUpdateLost ==
    \A v, w \in Workers : \A key \in Keys :
        BothApplied(v, w, key) =>
            \E first \in {v, w} :
                LET initial == QuantityAt(h[first].results[1].before, key)
                    dv      == DeltaAt(h[v].results[1], key)
                    dw      == DeltaAt(h[w].results[1], key)
                IN QuantityAt(inventory, key) \in
                       {initial + dv + dw, initial + dv, initial + dw}

\* an inbound and an outbound on one record, both entered on the same ledger and
\* both reported as applied, and the record holds what the inbound wrote: the
\* deduction is lost
C33Witness ==
    \E v, w \in Workers : \E key \in Keys :
        /\ BothApplied(v, w, key)
        /\ h[v].kind = "in" /\ h[w].kind = "out"
        /\ h[v].results[1].before = h[w].results[1].before
        /\ QuantityAt(inventory, key) =
              QuantityAt(h[v].results[1].before, key) + DeltaAt(h[v].results[1], key)

\* C34: a cancel adds the reservation's quantity to the ledger in a statement
\* of its own, while the reservation is still PENDING, and writes CANCELLED in
\* the next; when that write fails the ledger keeps the quantity and the
\* reservation stays PENDING, and a cancel that finds the reservation PENDING
\* goes on to add the quantity, whatever was added before.
CancelReinstatesBeforeStatus ==
    [][\A w \in Workers :
          LET key == <<cur(w).sku, h[w].target[1], h[w].target[2]>>
              rid == cur(w).rid
          IN /\ (h[w].pc = "can_update_inventory" /\ h'[w].pc = "can_update_reserve") =>
                   /\ Exists(inventory, key) =>
                         inventory'[key].quantity =
                             inventory[key].quantity + h[w].new_quantity
                   /\ reservations' = reservations
             /\ (h[w].pc = "can_update_reserve" /\ h'[w].pc = "done"
                   /\ ~h'[w].results[1].ok) =>
                   /\ inventory' = inventory
                   /\ reservations' = reservations
             /\ (h[w].pc = "can_select" /\ h'[w].pc # "can_select"
                   /\ reservations[rid].status = "PENDING"
                   /\ h'[w].err # "General error") =>
                   /\ h'[w].pc = "can_update_inventory"
                   /\ h'[w].new_quantity = reservations[rid].quantity]_vars

\* a cancel that failed and left the reservation PENDING with its quantity
\* back on the record, then a second cancel of it that succeeded: the record
\* holds the quantity twice over
C34Witness ==
    \E v, w \in Workers :
        /\ v # w
        /\ h[v].kind = "reserve_cancel" /\ h[w].kind = "reserve_cancel"
        /\ h[v].pc = "closed" /\ h[w].pc = "closed"
        /\ h[v].results[1].err = "General error"
        /\ h[w].results[1].ok
        /\ LET rv  == h[v].results[1]
               rw  == h[w].results[1]
               rid == rv.item.rid
               q   == rv.rbefore[rid].quantity
               key == <<rv.rbefore[rid].sku, rv.rbefore[rid].reserved_lot,
                        rv.rbefore[rid].reserved_location>>
           IN /\ rw.item.rid = rid
              /\ rv.rafter[rid].status = "PENDING"
              /\ rw.rbefore[rid].status = "PENDING"
              /\ rw.before[key].quantity = rv.before[key].quantity + q
              /\ inventory[key].quantity = rv.before[key].quantity + 2 * q
              /\ reservations[rid].status = "CANCELLED"

\* handler w holds a command of a caller who is neither on the list of the
\* command's bot nor a super admin
Outsider(hr) ==
    /\ hr.pc # "idle"
    /\ hr.kind \in Bot1Kinds \cup Bot2Kinds
    /\ hr.user_id \notin (IF hr.kind \in Bot1Kinds THEN users_json.bot1 ELSE users_json.bot2)
    /\ hr.user_id \notin users_json.super_admin

Confirmations(w) ==
    {i \in DOMAIN log[id_stamp(w)] : log[id_stamp(w)][i].command_type = "restoredb_confirmed"}

RestoreEntered(w) ==
    h[w].pc = "pending_confirmation" /\ h'[w].pc \in {"restore_run", "closed"}

RestoreConfirmedOnce ==
    [][\A w \in Workers :
          /\ Cardinality(Confirmations(w)') <= 1
          /\ Confirmations(w)' # Confirmations(w) => RestoreEntered(w)
          /\ RestoreEntered(w) => /\ h'[w].confirmed_by = h[w].user_id
                                  /\ h'[w].confirmed_by \in super_admin]_vars

\* a request whose confirmation was refused while its requester was no super
\* admin, and which the requester, a super admin again, confirmed: the restore ran
C36Witness ==
    \E w \in Workers :
        /\ h[w].kind = "restoredb" /\ h[w].pc = "closed" /\ h[w].overall_success
        /\ Refusals(w) # {}
        /\ Cardinality(Confirmations(w)) = 1
        /\ h[w].confirmed_by = h[w].user_id

\* C37: a confirmation sent after the 30 seconds of the warning have gone by
\* does not start the restore.
NoRestoreAfterWindow ==
    [][\A w \in Workers : RestoreEntered(w) => ~h[w].elapsed]_vars

\* C38: the movement report (for a range that holds the timestamps) lists an
\* operation of a movement kind exactly when its audit lifecycle has ended with
\* status SUCCESS: every such operation is listed, and none that ended FAILED.
Lifecycle(w) ==
    {i \in DOMAIN log[id_stamp(w)] : log[id_stamp(w)][i].entry = "close"}

MovementReportListsSuccesses ==
    \A w \in Workers :
        h[w].kind \in relevant_commands /\ Lifecycle(w) # {}
          => (id_stamp(w) \in filtered_movements
                <=> \E i \in Lifecycle(w) : log[id_stamp(w)][i].status = "SUCCESS")

\* C39: parse_multi_param_command returns the complete groups of k tokens, in
\* order, floor(n / k) of them for a text of n tokens, and drops an incomplete
\* group at the end; a command with complete items and an incomplete last one
\* is processed as its complete items are: one result line for each of them in
\* order, none for the dropped tokens, and a FAILED ending only if a complete
\* item failed.
CompleteGroups(parts, k) ==
    [j \in 1..(Len(parts) \div k) |-> SubSeq(parts, (j - 1) * k + 1, j * k)]

IncompleteGroupDropped ==
    LET hr == h[1]
        k  == params_per_item(hr.kind)
        n  == Len(hr.command_args)
    IN  hr.kind \in {"in", "out"} /\ hr.user_id # None =>
          /\ parse_multi_param_command(hr.command_args, k) = CompleteGroups(hr.command_args, k)
          /\ n >= k =>
               /\ hr.items = [j \in 1..(n \div k) |->
                                 item_of(hr.kind, CompleteGroups(hr.command_args, k)[j])]
               /\ hr.pc \in {"done", "closed"} =>
                    /\ Len(hr.results) = n \div k
                    /\ \A j \in DOMAIN hr.results : hr.results[j].item = hr.items[j]
                    /\ final_status(hr) = "FAILED"
                         => \E j \in DOMAIN hr.results : ~hr.results[j].msg_ok

\* an /in of two complete items and loose tokens after them has ended with two
\* result lines and SUCCESS
C39Witness ==
    /\ h[1].kind = "in" /\ h[1].pc = "closed"
    /\ Len(h[1].command_args) > 2 * params_per_item("in")
    /\ Len(h[1].results) = 2
    /\ final_status(h[1]) = "SUCCESS"
=============================================================================
